---- MODULE Spec2Model ----
(***************************************************************************)
(* Model of the handle arena of the Orion OpenFHE backend:                 *)
(*   include/minheap.hpp   class HeapAllocator                             *)
(*   src/minheap.cpp       g_ctHeap, PushCiphertext, MemoryMonitor         *)
(*   src/polyeval.cpp      EvaluatePolynomial                              *)
(*   src/tensors.cpp       GetCiphertextLevel                              *)
(***************************************************************************)
EXTENDS Integers, Sequences, FiniteSets, TLC

\* ---------------------------------------------------------------- bounds
\* Cap on the fresh-id counter nextInt (the code's counter is an int).
MaxNext == 3
\* Number of distinct object values a caller may store.
NumObjects == 2

\* The failure result of the C interface (return -1).
ErrorId == -1
\* A null shared_ptr (none is ever produced by make_shared).
NullObj == 0

Objects == 1..NumObjects
\* Ids a caller may pass: negative, allocated, and at or above the counter.
Ids == ErrorId..MaxNext
\* What a field of a recorded call holds when the call has no such argument
\* or result.
NoValue == ErrorId

\* ------------------------------------------------- std::priority_queue
\* minheap.hpp:24  std::priority_queue<int, std::vector<int>, std::greater<int>>
\* The queue is a binary heap on a vector; with comparator Comp the element
\* at the front is one that no other element comes before.

CompLess(a, b) == a < b

\* std::greater<int>
Comp(a, b) == a > b

Swap(h, i, j) == [h EXCEPT ![i] = h[j], ![j] = h[i]]

RECURSIVE SiftUp(_, _)
\* std::push_heap: move the last element up while its parent compares Comp.
SiftUp(h, i) ==
    IF i = 1 THEN h
    ELSE LET p == i \div 2
         IN IF Comp(h[p], h[i]) THEN SiftUp(Swap(h, p, i), p) ELSE h

RECURSIVE SiftDown(_, _)
\* std::pop_heap: restore the heap below position i.
SiftDown(h, i) ==
    LET l == 2 * i
        r == 2 * i + 1
        c == IF r <= Len(h) /\ Comp(h[l], h[r]) THEN r ELSE l
    IN IF l > Len(h) THEN h
       ELSE IF Comp(h[i], h[c]) THEN SiftDown(Swap(h, i, c), c) ELSE h

\* priority_queue::push
Push(h, x) == SiftUp(Append(h, x), Len(h) + 1)

\* priority_queue::top
Top(h) == h[1]

\* priority_queue::pop
Pop(h) ==
    IF Len(h) = 1 THEN << >>
    ELSE SiftDown([SubSeq(h, 1, Len(h) - 1) EXCEPT ![1] = h[Len(h)]], 1)

\* ------------------------------------------------------ HeapAllocator
\* A HeapAllocator value: [nextInt, freedIntegers, objectMap].

EmptyMap == [i \in {} |-> NullObj]

\* objectMap[id] = make_shared<T>(obj): inserts or overwrites.
MapStore(m, id, obj) ==
    [i \in (DOMAIN m) \cup {id} |-> IF i = id THEN obj ELSE m[i]]

\* objectMap.erase(it)
MapErase(m, id) == [i \in (DOMAIN m) \ {id} |-> m[i]]

\* HeapAllocator() : nextInt(0) {}
HeapAllocator == [nextInt |-> 0, freedIntegers |-> << >>, objectMap |-> EmptyMap]

AddNoPop(H, obj) ==
    LET reuse == H.freedIntegers # << >>
        allocated == IF reuse THEN Top(H.freedIntegers) ELSE H.nextInt
    IN [heap |-> [nextInt |-> IF reuse THEN H.nextInt ELSE H.nextInt + 1,
                  freedIntegers |-> H.freedIntegers,
                  objectMap |-> MapStore(H.objectMap, allocated, obj)],
        ret |-> allocated]

AddNoIncrement(H, obj) ==
    LET reuse == H.freedIntegers # << >>
        allocated == IF reuse THEN Top(H.freedIntegers) ELSE H.nextInt
    IN [heap |-> [nextInt |-> H.nextInt,
                  freedIntegers |-> IF reuse THEN Pop(H.freedIntegers)
                                             ELSE H.freedIntegers,
                  objectMap |-> MapStore(H.objectMap, allocated, obj)],
        ret |-> allocated]

AddFreshFirst(H, obj) ==
    LET allocated == H.nextInt
    IN [heap |-> [nextInt |-> H.nextInt + 1,
                  freedIntegers |-> H.freedIntegers,
                  objectMap |-> MapStore(H.objectMap, allocated, obj)],
        ret |-> allocated]

AddCountsEveryCall(H, obj) ==
    LET reuse == H.freedIntegers # << >>
        allocated == IF reuse THEN Top(H.freedIntegers) ELSE H.nextInt
    IN [heap |-> [nextInt |-> H.nextInt + 1,
                  freedIntegers |-> IF reuse THEN Pop(H.freedIntegers)
                                             ELSE H.freedIntegers,
                  objectMap |-> MapStore(H.objectMap, allocated, obj)],
        ret |-> allocated]

\* int Add(const T& obj): the new allocator and the id returned.
Add(H, obj) ==
    LET reuse == H.freedIntegers # << >>
        allocated == IF reuse THEN Top(H.freedIntegers) ELSE H.nextInt
    IN [heap |-> [nextInt |-> IF reuse THEN H.nextInt ELSE H.nextInt + 1,
                  freedIntegers |-> IF reuse THEN Pop(H.freedIntegers)
                                             ELSE H.freedIntegers,
                  objectMap |-> MapStore(H.objectMap, allocated, obj)],
        ret |-> allocated]

RetrieveNoCheck(H, id) ==
    IF id \in DOMAIN H.objectMap
    THEN [ok |-> TRUE, obj |-> H.objectMap[id], err |-> "none"]
    ELSE [ok |-> TRUE, obj |-> NullObj, err |-> "none"]

\* T& Retrieve(int id): the object, or the runtime_error thrown.
Retrieve(H, id) ==
    IF id \notin DOMAIN H.objectMap
    THEN [ok |-> FALSE, obj |-> NoValue, err |-> "not_found"]
    ELSE IF H.objectMap[id] = NullObj
         THEN [ok |-> FALSE, obj |-> NoValue, err |-> "invalid_cast"]
         ELSE [ok |-> TRUE, obj |-> H.objectMap[id], err |-> "none"]

\* std::shared_ptr<T> GetSharedPtr(int id): same lookup and checks.
GetSharedPtr(H, id) ==
    IF id \notin DOMAIN H.objectMap
    THEN [ok |-> FALSE, obj |-> NoValue, err |-> "not_found"]
    ELSE IF H.objectMap[id] = NullObj
         THEN [ok |-> FALSE, obj |-> NoValue, err |-> "invalid_cast"]
         ELSE [ok |-> TRUE, obj |-> H.objectMap[id], err |-> "none"]

DeleteNoFind(H, id) ==
    [heap |-> [H EXCEPT !.objectMap = MapErase(H.objectMap, id),
                        !.freedIntegers = Push(H.freedIntegers, id)],
     ret |-> TRUE]

DeleteNoErase(H, id) ==
    IF id \in DOMAIN H.objectMap
    THEN [heap |-> [H EXCEPT !.freedIntegers = Push(H.freedIntegers, id)],
          ret |-> TRUE]
    ELSE [heap |-> H, ret |-> FALSE]

\* bool Delete(int id)
Delete(H, id) ==
    IF id \in DOMAIN H.objectMap
    THEN [heap |-> [H EXCEPT !.objectMap = MapErase(H.objectMap, id),
                             !.freedIntegers = Push(H.freedIntegers, id)],
          ret |-> TRUE]
    ELSE [heap |-> H, ret |-> FALSE]

\* bool Exists(int id) const
Exists(H, id) == id \in DOMAIN H.objectMap

SizeOfCounter(H) == H.nextInt

\* size_t Size() const
Size(H) == Cardinality(DOMAIN H.objectMap)

\* The orders in which a range-for may visit the keys S of an unordered_map.
RECURSIVE IterationOrders(_)
IterationOrders(S) ==
    IF S = {} THEN {<< >>}
    ELSE UNION {{<<x>> \o rest : rest \in IterationOrders(S \ {x})} : x \in S}

\* std::vector<int> GetLiveKeys() const: every key of objectMap pushed once,
\* in the iteration order of the unordered_map, which is unspecified; the set
\* of vectors the call may return.
GetLiveKeys(H) == IterationOrders(DOMAIN H.objectMap)

ResetKeepCounter(H) ==
    [nextInt |-> H.nextInt, freedIntegers |-> << >>, objectMap |-> EmptyMap]

ResetKeepFree(H) ==
    [nextInt |-> 0, freedIntegers |-> H.freedIntegers, objectMap |-> EmptyMap]

\* void Reset(): nextInt = 0; objectMap.clear(); pop until the queue is empty.
Reset(H) ==
    [nextInt |-> 0, freedIntegers |-> << >>, objectMap |-> EmptyMap]

\* ------------------------------------------------------------- state
VARIABLES
    heap,       \* the HeapAllocator under test (test_memory_management: heap)
    call,       \* the last call on heap: its arguments, what it returned, and
                \* whether the call before it was Reset
    fresh,      \* a second HeapAllocator, constructed when heap is Reset, that
                \* then receives the same calls as heap
    freshMade,  \* whether fresh has been constructed yet
    freshCall,  \* the last call as made on fresh
    runStart,   \* free ids and counter of heap after the last Delete/Reset
    runRets,    \* ids returned by the Adds on heap since then
    g_ptHeap,   \* minheap.cpp:8   plaintext heap
    g_ctHeap,   \* minheap.cpp:9   ciphertext heap
    g_ltHeap,   \* minheap.cpp:10  linear transform heap
    peaks,      \* MemoryMonitor's three static peak counters
    ccall,      \* the last call through the C interface and how it ended
    ctNetAdds,  \* Adds minus successful Deletes on g_ctHeap since its last Reset
    ltcall,     \* the last call of the transform management functions
    lt,         \* an OrionLinearTransform object held by a caller
    ocall,      \* the last call made on lt
    frame,      \* the activation of the encrypted Apply: its locals, the
                \* primitive calls issued so far, where it stands
    backend,    \* the OrionOpenFHEBackend object and the components it sets up
    acall,      \* the last call of a function working on ciphertext handles
    conc        \* a HeapAllocator shared by two threads, and where each thread
                \* stands in its call

\* The allocator under test and its observers.
hvars == <<heap, call, fresh, freshMade, freshCall, runStart, runRets>>
\* The global heaps and what the C interface changes.
gvars == <<g_ptHeap, g_ctHeap, g_ltHeap, peaks, ccall, ctNetAdds>>
\* The part of gvars the transform management functions leave alone.
cvars == <<g_ptHeap, g_ctHeap, peaks, ccall, ctNetAdds>>
\* What the linear-transform functions change besides g_ltHeap.
\* A transform object used directly, and its observers.
ovars == <<lt, ocall>>
\* The backend and the last handle-level call.
avars == <<backend, acall, conc>>
xvars == <<ltcall, ovars, frame, avars>>
vars == <<hvars, gvars, xvars>>

Range(s) == {s[i] : i \in DOMAIN s}

Call(op, id, obj, ret, ok, err) ==
    [op |-> op, id |-> id, obj |-> obj, ret |-> ret, ok |-> ok, err |-> err,
     afterReset |-> call.op = "Reset"]

NoCall ==
    [op |-> "new", id |-> NoValue, obj |-> NoValue, ret |-> NoValue,
     ok |-> TRUE, err |-> "none", afterReset |-> FALSE]

CCall(op, id, ret, outcome) ==
    [op |-> op, id |-> id, ret |-> ret, outcome |-> outcome]

NoCCall == CCall("none", NoValue, NoValue, "returned")

\* A call of CreateLinearTransform / DeleteLinearTransform: what was asked
\* (the facts about the argument the claims speak of), what came back and
\* how the call ended.
LTCall(op, id, lengthDiffers, ragged, empty, ret, outcome) ==
    [op |-> op, id |-> id, lengthDiffers |-> lengthDiffers, ragged |-> ragged,
     empty |-> empty, ret |-> ret, outcome |-> outcome]

NoLTCall == LTCall("none", NoValue, FALSE, FALSE, FALSE, NoValue, "returned")

\* OrionLinearTransform(): rows(0), cols(0), initialized(false)
OrionLinearTransform ==
    [matrix |-> << >>, rows |-> 0, cols |-> 0, initialized |-> FALSE]

\* A call on lt or a construction of it: the arguments, what it returned and
\* how it ended.
OCall(op, input, num_rows, num_cols, result, outcome) ==
    [op |-> op, input |-> input, num_rows |-> num_rows, num_cols |-> num_cols,
     result |-> result, outcome |-> outcome]

NoOCall == OCall("none", << >>, 0, 0, << >>, "returned")

\* No encrypted Apply has been called.
NoFrame ==
    [pc |-> "idle", t |-> OrionLinearTransform, baby_step_size |-> 0,
     num_giant_steps |-> 0, k |-> 0, baby_steps |-> << >>, giant_step |-> 0,
     result |-> << >>, trace |-> << >>, skipped |-> {}, error |-> "none",
     missing |-> 0]

\* A call of a function that works on ciphertext handles: whether every id
\* passed was live when it was called, the column count of the transform it
\* was about, the integer and the values it returned, how many homomorphic
\* primitives it called, how it ended and the error it printed.
ACall(op, allLive, cols, ret, values, prims, outcome, error) ==
    [op |-> op, allLive |-> allLive, cols |-> cols, ret |-> ret,
     values |-> values, prims |-> prims, outcome |-> outcome, error |-> error]

NoACall == ACall("none", TRUE, NoValue, NoValue, << >>, 0, "returned", "none")

\* OrionOpenFHEBackend() : initialized(false), with the flags of the globals
\* it sets up: OrionScheme() : initialized(false), OrionEncryptor() likewise.
\* cleaned is not a member: it records that the last change of initialized
\* was made by CleanUp.
OrionOpenFHEBackend ==
    [initialized |-> FALSE, g_scheme |-> FALSE, g_encryptor |-> FALSE,
     cleaned |-> FALSE]

\* A HeapAllocator as constructed and two threads that have not called it.
\* holds is the id a thread got from its last Add and has not deleted,
\* locked whether the thread's call runs under the callers' mutex, allLocked
\* whether every call so far did.
NoThreads ==
    [arena |-> HeapAllocator,
     pc |-> [t \in 1..2 |-> "idle"],
     reuse |-> [t \in 1..2 |-> FALSE],
     allocated |-> [t \in 1..2 |-> ErrorId],
     holds |-> [t \in 1..2 |-> ErrorId],
     locked |-> [t \in 1..2 |-> FALSE],
     allLocked |-> TRUE,
     outcome |-> "running"]

\* minheap.cpp:114-116  the static peak counters start at 0.
MemoryMonitor == [plaintexts |-> 0, ciphertexts |-> 0, linear_transforms |-> 0]

RunOf(H) == [free |-> Range(H.freedIntegers), next |-> H.nextInt]

\* Add is modelled while the counter stays below the cap.
CanAdd(H) == H.freedIntegers # << >> \/ H.nextInt < MaxNext

Init ==
    /\ heap = HeapAllocator
    /\ call = NoCall
    /\ fresh = HeapAllocator
    /\ freshMade = FALSE
    /\ freshCall = NoCall
    /\ runStart = RunOf(HeapAllocator)
    /\ runRets = << >>
    /\ g_ptHeap = HeapAllocator
    /\ g_ctHeap = HeapAllocator
    /\ g_ltHeap = HeapAllocator
    /\ peaks = MemoryMonitor
    /\ ccall = NoCCall
    /\ ctNetAdds = 0
    /\ ltcall = NoLTCall
    /\ lt = OrionLinearTransform
    /\ ocall = NoOCall
    /\ frame = NoFrame
    /\ backend = OrionOpenFHEBackend
    /\ acall = NoACall
    /\ conc = NoThreads

\* The companion allocator, once constructed, gets the call too.
OnFresh(h, c) ==
    /\ fresh' = IF freshMade THEN h ELSE fresh
    /\ freshCall' = IF freshMade THEN c ELSE freshCall
    /\ UNCHANGED freshMade

\* heap.Add(obj)
HeapAdd(obj) ==
    /\ UNCHANGED <<gvars, xvars>>
    /\ CanAdd(heap)
    /\ freshMade => CanAdd(fresh)
    /\ LET r == Add(heap, obj)
           f == Add(fresh, obj)
       IN /\ heap' = r.heap
          /\ call' = Call("Add", NoValue, obj, r.ret, TRUE, "none")
          /\ OnFresh(f.heap, Call("Add", NoValue, obj, f.ret, TRUE, "none"))
          /\ runRets' = Append(runRets, r.ret)
    /\ UNCHANGED runStart

\* heap.Retrieve<T>(id)
HeapRetrieve(id) ==
    /\ UNCHANGED <<gvars, xvars>>
    /\ LET r == Retrieve(heap, id)
           f == Retrieve(fresh, id)
       IN /\ call' = Call("Retrieve", id, r.obj, NoValue, r.ok, r.err)
          /\ OnFresh(fresh, Call("Retrieve", id, f.obj, NoValue, f.ok, f.err))
    /\ UNCHANGED <<heap, runStart, runRets>>

\* heap.GetSharedPtr<T>(id)
HeapGetSharedPtr(id) ==
    /\ UNCHANGED <<gvars, xvars>>
    /\ LET r == GetSharedPtr(heap, id)
           f == GetSharedPtr(fresh, id)
       IN /\ call' = Call("GetSharedPtr", id, r.obj, NoValue, r.ok, r.err)
          /\ OnFresh(fresh, Call("GetSharedPtr", id, f.obj, NoValue, f.ok, f.err))
    /\ UNCHANGED <<heap, runStart, runRets>>

\* heap.Delete(id)
HeapDelete(id) ==
    /\ UNCHANGED <<gvars, xvars>>
    /\ LET r == Delete(heap, id)
           f == Delete(fresh, id)
       IN /\ heap' = r.heap
          /\ call' = Call("Delete", id, NoValue, NoValue, r.ret, "none")
          /\ OnFresh(f.heap, Call("Delete", id, NoValue, NoValue, f.ret, "none"))
          /\ runStart' = RunOf(r.heap)
    /\ runRets' = << >>

\* heap.Exists(id)
HeapExists(id) ==
    /\ UNCHANGED <<gvars, xvars>>
    /\ call' = Call("Exists", id, NoValue, NoValue, Exists(heap, id), "none")
    /\ OnFresh(fresh, Call("Exists", id, NoValue, NoValue, Exists(fresh, id), "none"))
    /\ UNCHANGED <<heap, runStart, runRets>>

\* heap.Size()
HeapSize ==
    /\ UNCHANGED <<gvars, xvars>>
    /\ call' = Call("Size", NoValue, NoValue, Size(heap), TRUE, "none")
    /\ OnFresh(fresh, Call("Size", NoValue, NoValue, Size(fresh), TRUE, "none"))
    /\ UNCHANGED <<heap, runStart, runRets>>

\* heap.Reset(); the companion allocator is constructed anew.
HeapReset ==
    /\ UNCHANGED <<gvars, xvars>>
    /\ heap' = Reset(heap)
    /\ call' = Call("Reset", NoValue, NoValue, NoValue, TRUE, "none")
    /\ fresh' = HeapAllocator
    /\ freshMade' = TRUE
    /\ freshCall' = Call("Reset", NoValue, NoValue, NoValue, TRUE, "none")
    /\ runStart' = RunOf(Reset(heap))
    /\ runRets' = << >>

Next ==
    \/ \E obj \in Objects : HeapAdd(obj)
    \/ \E id \in Ids : HeapRetrieve(id)
    \/ \E id \in Ids : HeapGetSharedPtr(id)
    \/ \E id \in Ids : HeapDelete(id)
    \/ \E id \in Ids : HeapExists(id)
    \/ HeapSize
    \/ HeapReset

Spec == Init /\ [][Next]_vars

\* ------------------------------------------------- the C interface
\* g_scheme (scheme.cpp) and polynomialMap (polyeval.cpp) are outside this
\* model: what a handler reads from them is an input of its action, and so
\* is what the library call EvalPoly does: it throws, or it returns a null
\* or a non-null ciphertext.

Max(a, b) == IF a >= b THEN a ELSE b

\* MemoryMonitor::UpdatePeaks
UpdatePeaks(p) ==
    [plaintexts |-> Max(p.plaintexts, Size(g_ptHeap)),
     ciphertexts |-> Max(p.ciphertexts, Size(g_ctHeap)),
     linear_transforms |-> Max(p.linear_transforms, Size(g_ltHeap))]

\* int PushCiphertext(ct): UpdateMemoryPeaks(); return g_ctHeap.Add(ct);
PushCiphertext(ct) ==
    /\ CanAdd(g_ctHeap)
    /\ peaks' = UpdatePeaks(peaks)
    /\ g_ctHeap' = Add(g_ctHeap, ct).heap
    /\ ccall' = CCall("PushCiphertext", NoValue, Add(g_ctHeap, ct).ret, "returned")
    /\ ctNetAdds' = ctNetAdds + 1
    /\ UNCHANGED <<g_ptHeap, g_ltHeap>>
    /\ UNCHANGED <<hvars, xvars>>

\* Plaintexts are pushed while the plaintext heap's counter is below the cap.
MaxPlaintexts == 1

\* int PushPlaintext(pt): UpdateMemoryPeaks(); return g_ptHeap.Add(pt);
PushPlaintext(pt) ==
    /\ g_ptHeap.freedIntegers # << >> \/ g_ptHeap.nextInt < MaxPlaintexts
    /\ peaks' = UpdatePeaks(peaks)
    /\ g_ptHeap' = Add(g_ptHeap, pt).heap
    /\ ccall' = CCall("PushPlaintext", NoValue, Add(g_ptHeap, pt).ret, "returned")
    /\ UNCHANGED <<g_ctHeap, g_ltHeap, ctNetAdds>>
    /\ UNCHANGED <<hvars, xvars>>

\* bool DeletePlaintext(id): return g_ptHeap.Delete(id);
DeletePlaintext(id) ==
    /\ g_ptHeap' = Delete(g_ptHeap, id).heap
    /\ ccall' = CCall("DeletePlaintext", id,
                      IF Delete(g_ptHeap, id).ret THEN 1 ELSE 0, "returned")
    /\ UNCHANGED <<g_ctHeap, g_ltHeap, peaks, ctNetAdds>>
    /\ UNCHANGED <<hvars, xvars>>

\* void ResetMemoryPeaks(): MemoryMonitor::ResetPeaks() sets the three
\* counters to 0.
ResetMemoryPeaks ==
    /\ peaks' = MemoryMonitor
    /\ ccall' = CCall("ResetMemoryPeaks", NoValue, NoValue, "returned")
    /\ UNCHANGED <<g_ptHeap, g_ctHeap, g_ltHeap, ctNetAdds>>
    /\ UNCHANGED <<hvars, xvars>>

\* void DeleteCiphertextC(id): ::DeleteCiphertext(id), result dropped.
DeleteCiphertextC(id) ==
    /\ g_ctHeap' = Delete(g_ctHeap, id).heap
    /\ ccall' = CCall("DeleteCiphertextC", id, NoValue, "returned")
    /\ ctNetAdds' = IF Delete(g_ctHeap, id).ret THEN ctNetAdds - 1 ELSE ctNetAdds
    /\ UNCHANGED <<g_ptHeap, g_ltHeap, peaks>>
    /\ UNCHANGED <<hvars, xvars>>

\* GetLevel() of a stored ciphertext: some function of the object.
GetLevel(obj) == obj

\* int GetCiphertextLevel(id): Exists test, then Retrieve inside try/catch.
GetCiphertextLevel(id) ==
    /\ LET r == Retrieve(g_ctHeap, id)
       IN ccall' = CCall("GetCiphertextLevel", id,
                         IF ~Exists(g_ctHeap, id) THEN ErrorId
                         ELSE IF r.ok THEN GetLevel(r.obj) ELSE ErrorId,
                         "returned")
    /\ UNCHANGED <<g_ptHeap, g_ctHeap, g_ltHeap, peaks, ctNetAdds>>
    /\ UNCHANGED <<hvars, xvars>>

\* std::vector<int> GetAllCiphertextIDs(): g_ctHeap.GetLiveKeys().
GetAllCiphertextIDs ==
    /\ \E keys \in GetLiveKeys(g_ctHeap) :
          ccall' = CCall("GetAllCiphertextIDs", NoValue, keys, "returned")
    /\ UNCHANGED <<g_ptHeap, g_ctHeap, g_ltHeap, peaks, ctNetAdds>>
    /\ UNCHANGED <<hvars, xvars>>

\* bool CiphertextExists(id): g_ctHeap.Exists(id).
CiphertextExists(id) ==
    /\ ccall' = CCall("CiphertextExists", id, Exists(g_ctHeap, id), "returned")
    /\ UNCHANGED <<g_ptHeap, g_ctHeap, g_ltHeap, peaks, ctNetAdds>>
    /\ UNCHANGED <<hvars, xvars>>

\* void GetMemoryUsage(int* plaintextCount, int* ciphertextCount), both
\* pointers given: the two sizes written through them.
GetMemoryUsage ==
    /\ ccall' = CCall("GetMemoryUsage", NoValue,
                      [plaintextCount |-> Size(g_ptHeap),
                       ciphertextCount |-> Size(g_ctHeap)], "returned")
    /\ UNCHANGED <<g_ptHeap, g_ctHeap, g_ltHeap, peaks, ctNetAdds>>
    /\ UNCHANGED <<hvars, xvars>>

\* void ResetTensorHeaps(): g_ptHeap.Reset(); g_ctHeap.Reset();
ResetTensorHeaps ==
    /\ g_ptHeap' = Reset(g_ptHeap)
    /\ g_ctHeap' = Reset(g_ctHeap)
    /\ ccall' = CCall("ResetTensorHeaps", NoValue, NoValue, "returned")
    /\ ctNetAdds' = 0
    /\ UNCHANGED <<g_ltHeap, peaks>>
    /\ UNCHANGED <<hvars, xvars>>

\* int EvaluatePolynomial(ctInID, polyID, outScale).  RetrieveCiphertext is
\* called before the try block, so what it throws leaves the function.
EvaluatePolynomial(ctInID, initialized, polyFound, evalThrows, evalPoly) ==
    LET r == Retrieve(g_ctHeap, ctInID)
        stored == ~evalThrows /\ evalPoly # NullObj
    IN /\ UNCHANGED <<g_ptHeap, g_ltHeap>>
       /\ UNCHANGED <<hvars, xvars>>
       /\ IF ~initialized
          THEN /\ ccall' = CCall("EvaluatePolynomial", ctInID, ErrorId, "returned")
               /\ UNCHANGED <<g_ctHeap, peaks, ctNetAdds>>
          ELSE IF ~r.ok
          THEN /\ ccall' = CCall("EvaluatePolynomial", ctInID, NoValue,
                                 "exception_escaped")
               /\ UNCHANGED <<g_ctHeap, peaks, ctNetAdds>>
          ELSE IF r.obj = NullObj \/ ~polyFound \/ ~stored
          THEN /\ ccall' = CCall("EvaluatePolynomial", ctInID, ErrorId, "returned")
               /\ UNCHANGED <<g_ctHeap, peaks, ctNetAdds>>
          ELSE /\ CanAdd(g_ctHeap)
               /\ peaks' = UpdatePeaks(peaks)
               /\ g_ctHeap' = Add(g_ctHeap, evalPoly).heap
               /\ ccall' = CCall("EvaluatePolynomial", ctInID,
                                 Add(g_ctHeap, evalPoly).ret, "returned")
               /\ ctNetAdds' = ctNetAdds + 1

NextC ==
    \/ \E ct \in Objects : PushCiphertext(ct)
    \/ \E id \in Ids : DeleteCiphertextC(id)
    \/ \E id \in Ids : GetCiphertextLevel(id)
    \/ GetAllCiphertextIDs
    \/ \E id \in Ids : CiphertextExists(id)
    \/ GetMemoryUsage
    \/ ResetTensorHeaps
    \/ \E id \in Ids, initialized \in BOOLEAN, polyFound \in BOOLEAN,
          evalThrows \in BOOLEAN, evalPoly \in {NullObj} \cup Objects :
             EvaluatePolynomial(id, initialized, polyFound, evalThrows, evalPoly)

\* The calls a foreign caller makes on the ciphertext heap.
SpecC == Init /\ [][NextC]_vars

NextPeaks ==
    \/ PushPlaintext(NumObjects)
    \/ \E id \in ErrorId..MaxPlaintexts : DeletePlaintext(id)
    \/ PushCiphertext(NumObjects)
    \/ \E id \in Ids : DeleteCiphertextC(id)
    \/ ResetMemoryPeaks

\* Plaintexts and ciphertexts are pushed and deleted and the peak counters
\* reset, in any order.
SpecPeaks == Init /\ [][NextPeaks]_vars

\* ------------------------------------------------ linear transforms
\* size_t arithmetic is modulo 2^64 in the build; the model keeps the
\* wrap-around with a word of SizeBits bits.
SizeBits == 3
SizeModulus == 2 ^ SizeBits
\* num_rows * num_cols as the constructor computes it.
SizeMul(a, b) == (a * b) % SizeModulus

\* Row and column counts given to the constructors.
MaxDim == 4
Dims == 0..MaxDim
\* vector::size() is a size_t too.
MaxLen == SizeModulus - 1
\* Creation is modelled while the transform heap's counter is below the cap.
MaxTransforms == 1
CanAddLT(H) == H.freedIntegers # << >> \/ H.nextInt < MaxTransforms

\* The flat buffers the callers pass: len elements, the k-th of value k.
FlatInput(len) == [k \in 1..len |-> k]
\* The nested inputs: one row per element of lens, of that length, valued by
\* position.
\* Nested inputs have up to MaxRows rows.
MaxRows == 2
RowLens == UNION {[1..n -> 0..MaxRows] : n \in 0..MaxRows}
NestedInput(lens) ==
    [i \in 1..Len(lens) |-> [j \in 1..lens[i] |-> (i - 1) * lens[1] + j]]

OrionLinearTransformFlatColumnMajor(transform_matrix, num_rows, num_cols) ==
    IF Len(transform_matrix) # SizeMul(num_rows, num_cols)
    THEN [matrix |-> << >>, rows |-> num_rows, cols |-> num_cols,
          initialized |-> FALSE]
    ELSE [matrix |-> [i \in 1..num_rows |->
                        [j \in 1..num_cols |->
                            transform_matrix[(j - 1) * num_rows + (i - 1) + 1]]],
          rows |-> num_rows, cols |-> num_cols, initialized |-> TRUE]

\* OrionLinearTransform(transform_matrix, num_rows, num_cols), when the loop
\* stays inside transform_matrix.
OrionLinearTransformFlat(transform_matrix, num_rows, num_cols) ==
    IF Len(transform_matrix) # SizeMul(num_rows, num_cols)
    THEN [matrix |-> << >>, rows |-> num_rows, cols |-> num_cols,
          initialized |-> FALSE]
    ELSE [matrix |-> [i \in 1..num_rows |->
                        [j \in 1..num_cols |->
                            transform_matrix[(i - 1) * num_cols + (j - 1) + 1]]],
          rows |-> num_rows, cols |-> num_cols, initialized |-> TRUE]

\* The size test passes although the product is larger than the buffer: the
\* product wrapped.  matrix.resize then asks for more memory than the
\* buffer has elements, and the copy loop reads transform_matrix past its end.
ReadsPastEnd(transform_matrix, num_rows, num_cols) ==
    /\ Len(transform_matrix) = SizeMul(num_rows, num_cols)
    /\ num_rows * num_cols > Len(transform_matrix)

\* What the constructor does then: resize throws (bad_alloc, length_error),
\* or the allocations made so far succeed and the read past the end of the
\* buffer, which is undefined, ends the process.
WrapOutcomes == {"threw", "crashed"}

OrionLinearTransformNestedNoCheck(transform_matrix) ==
    IF transform_matrix = << >>
    THEN [matrix |-> transform_matrix, rows |-> 0, cols |-> 0,
          initialized |-> FALSE]
    ELSE [matrix |-> transform_matrix, rows |-> Len(transform_matrix),
          cols |-> Len(transform_matrix[1]), initialized |-> TRUE]

\* OrionLinearTransform(const std::vector<std::vector<double>>&)
OrionLinearTransformNested(transform_matrix) ==
    IF transform_matrix = << >>
    THEN [matrix |-> transform_matrix, rows |-> 0, cols |-> 0,
          initialized |-> FALSE]
    ELSE IF \E i \in 1..Len(transform_matrix) :
               Len(transform_matrix[i]) # Len(transform_matrix[1])
    THEN [matrix |-> << >>, rows |-> 0, cols |-> 0, initialized |-> FALSE]
    ELSE [matrix |-> transform_matrix, rows |-> Len(transform_matrix),
          cols |-> Len(transform_matrix[1]), initialized |-> TRUE]

\* The process is still running.
Running == ltcall.outcome # "crashed"

\* int CreateLinearTransform(transform_matrix, num_rows, num_cols)
CreateLinearTransformFlat(transform_matrix, num_rows, num_cols) ==
    LET differs == Len(transform_matrix) # num_rows * num_cols
    IN /\ Running
       /\ UNCHANGED <<hvars, cvars, ovars, frame, avars>>
       /\ IF ReadsPastEnd(transform_matrix, num_rows, num_cols)
          THEN /\ \E o \in WrapOutcomes :
                    ltcall' = LTCall("CreateLinearTransformFlat", NoValue, differs,
                                     FALSE, FALSE,
                                     IF o = "threw" THEN ErrorId ELSE NoValue,
                                     IF o = "threw" THEN "returned" ELSE "crashed")
               /\ UNCHANGED g_ltHeap
          ELSE LET transform == OrionLinearTransformFlat(transform_matrix,
                                                         num_rows, num_cols)
               IN IF ~transform.initialized
                  THEN /\ ltcall' = LTCall("CreateLinearTransformFlat", NoValue,
                                           differs, FALSE, FALSE, ErrorId, "returned")
                       /\ UNCHANGED g_ltHeap
                  ELSE /\ CanAddLT(g_ltHeap)
                       /\ g_ltHeap' = Add(g_ltHeap, transform).heap
                       /\ ltcall' = LTCall("CreateLinearTransformFlat", NoValue,
                                           differs, FALSE, FALSE,
                                           Add(g_ltHeap, transform).ret, "returned")

\* int CreateLinearTransform(const std::vector<std::vector<double>>&)
CreateLinearTransformNested(transform_matrix) ==
    LET transform == OrionLinearTransformNested(transform_matrix)
        ragged == \E i \in 1..Len(transform_matrix) :
                     Len(transform_matrix[i]) # Len(transform_matrix[1])
        empty == Len(transform_matrix) = 0
    IN /\ Running
       /\ UNCHANGED <<hvars, cvars, ovars, frame, avars>>
       /\ IF ~transform.initialized
          THEN /\ ltcall' = LTCall("CreateLinearTransformNested", NoValue, FALSE,
                                   ragged, empty, ErrorId, "returned")
               /\ UNCHANGED g_ltHeap
          ELSE /\ CanAddLT(g_ltHeap)
               /\ g_ltHeap' = Add(g_ltHeap, transform).heap
               /\ ltcall' = LTCall("CreateLinearTransformNested", NoValue, FALSE,
                                   ragged, empty,
                                   Add(g_ltHeap, transform).ret, "returned")

\* bool DeleteLinearTransform(transform_id): g_ltHeap.Delete(transform_id)
DeleteLinearTransform(transform_id) ==
    /\ Running
    /\ g_ltHeap' = Delete(g_ltHeap, transform_id).heap
    /\ ltcall' = LTCall("DeleteLinearTransform", transform_id, FALSE, FALSE, FALSE,
                        IF Delete(g_ltHeap, transform_id).ret THEN 1 ELSE 0,
                        "returned")
    /\ UNCHANGED <<hvars, cvars, ovars, frame, avars>>

NextLT ==
    \/ \E len \in 0..MaxLen, num_rows \in Dims, num_cols \in Dims :
          CreateLinearTransformFlat(FlatInput(len), num_rows, num_cols)
    \/ \E lens \in RowLens : CreateLinearTransformNested(NestedInput(lens))
    \/ \E id \in Ids : DeleteLinearTransform(id)

\* The management functions called in any order on the transform heap.
SpecLT == Init /\ [][NextLT]_vars

\* ------------------------------------------- a transform object
\* Shapes and sizes of the objects built directly.
MaxObjDim == 2
MaxObjLen == 4
ObjDims == 0..MaxObjDim
\* Matrix entries and input entries: doubles holding small integers.
MatrixScalars == {0, 1}
InputScalars == {3, 4}
FlatBuffers == UNION {[1..n -> MatrixScalars] : n \in 0..MaxObjLen}
InputVectors == UNION {[1..n -> InputScalars] : n \in 0..MaxObjDim}

\* The nested inputs: the flat buffers cut into rows, and ragged ones.
Reshape(flat, num_rows, num_cols) ==
    [i \in 1..num_rows |-> [j \in 1..num_cols |-> flat[(i - 1) * num_cols + j]]]
NestedInputs ==
    {Reshape(b, r, c) : <<b, r, c>> \in
        {x \in FlatBuffers \X ObjDims \X ObjDims : Len(x[1]) = x[2] * x[3]}}
    \cup {NestedInput(lens) : lens \in RowLens}

\* result[i] += matrix[i][j] * input[j] for j = 0..cols-1, from 0.0; j counts
\* the columns done.
RECURSIVE RowTimes(_, _, _)
RowTimes(row, input, j) ==
    IF j = 0 THEN 0
    ELSE RowTimes(row, input, j - 1) + row[j] * input[j]

ApplyFirstColumnOnly(t, input) ==
    IF ~t.initialized THEN << >>
    ELSE IF Len(input) # t.cols THEN << >>
    ELSE [i \in 1..t.rows |-> RowTimes(t.matrix[i], input, IF t.cols > 0 THEN 1 ELSE 0)]

\* std::vector<double> OrionLinearTransform::Apply(const std::vector<double>&)
Apply(t, input) ==
    IF ~t.initialized THEN << >>
    ELSE IF Len(input) # t.cols THEN << >>
    ELSE [i \in 1..t.rows |-> RowTimes(t.matrix[i], input, t.cols)]

\* bool OrionLinearTransform::ValidateDimensions(size_t input_size) const
ValidateDimensions(t, input_size) == t.initialized /\ input_size = t.cols

\* The caller's process is still running.
ObjRunning == ocall.outcome # "crashed"

\* lt = OrionLinearTransform(transform_matrix, num_rows, num_cols); when the
\* constructor throws, lt keeps its value.
ConstructFlat(transform_matrix, num_rows, num_cols) ==
    /\ ObjRunning
    /\ UNCHANGED <<hvars, gvars, ltcall, frame, avars>>
    /\ IF ReadsPastEnd(transform_matrix, num_rows, num_cols)
       THEN /\ \E o \in WrapOutcomes :
                 ocall' = OCall("ConstructFlat", transform_matrix, num_rows,
                                num_cols, << >>, o)
            /\ UNCHANGED lt
       ELSE /\ lt' = OrionLinearTransformFlat(transform_matrix, num_rows, num_cols)
            /\ ocall' = OCall("ConstructFlat", transform_matrix, num_rows,
                              num_cols, << >>, "returned")

\* lt = OrionLinearTransform(transform_matrix) from a nested vector.
ConstructNested(transform_matrix) ==
    /\ ObjRunning
    /\ lt' = OrionLinearTransformNested(transform_matrix)
    /\ ocall' = OCall("ConstructNested", transform_matrix, 0, 0, << >>, "returned")
    /\ UNCHANGED <<hvars, gvars, ltcall, frame, avars>>

\* lt.Apply(input)
ApplyPlain(input) ==
    /\ ObjRunning
    /\ ocall' = OCall("Apply", input, 0, 0, Apply(lt, input), "returned")
    /\ UNCHANGED lt
    /\ UNCHANGED <<hvars, gvars, ltcall, frame, avars>>

\* lt.ValidateDimensions(input_size)
ValidateDimensionsCall(input_size) ==
    /\ ObjRunning
    /\ ocall' = OCall("ValidateDimensions", <<input_size>>, 0, 0,
                      <<ValidateDimensions(lt, input_size)>>, "returned")
    /\ UNCHANGED lt
    /\ UNCHANGED <<hvars, gvars, ltcall, frame, avars>>

NextObj ==
    \/ \E b \in FlatBuffers, r \in ObjDims, c \in ObjDims : ConstructFlat(b, r, c)
    \/ \E m \in NestedInputs : ConstructNested(m)
    \/ \E input \in InputVectors : ApplyPlain(input)
    \/ \E n \in 0..MaxObjDim + 1 : ValidateDimensionsCall(n)

\* A caller that builds transform objects and uses them.
SpecObj == Init /\ [][NextObj]_vars

\* ------------------------------------------- the encrypted Apply
\* A ciphertext is its slot vector, NumSlots cyclic slots of integers; the
\* library primitives act slot-wise.
NumSlots == 4
\* The ciphertext the caller passes.
InputCiphertext == [i \in 1..NumSlots |-> i]
\* context->EvalRotate(ct, k): slot i of the result is slot i+k of ct.
EvalRotate(ct, k) == [i \in 1..NumSlots |-> ct[((i - 1 + k) % NumSlots) + 1]]
\* context->EvalMult(ct, c) with a scalar c
EvalMult(ct, c) == [i \in 1..NumSlots |-> ct[i] * c]
\* context->EvalAdd(a, b)
EvalAdd(a, b) == [i \in 1..NumSlots |-> a[i] + b[i]]

\* One call of a primitive as the library sees it: the function, the
\* variable passed as the ciphertext (and its index in baby_steps), the
\* rotation offset or the scalar.
PrimCall(f, on, idx, by) == [f |-> f, on |-> on, idx |-> idx, by |-> by]

\* Matrix weights are doubles; the model counts them in units of half the
\* tolerance 1e-10, so that 1 is a non-zero weight below it.
Tolerance == 2
Weights == {-3, 0, 1}
Abs(x) == IF x < 0 THEN -x ELSE x

\* The transforms Apply is called on: one row of up to MaxCols weights, the
\* same first row followed by further rows, a transform with columns but no
\* row, and one never initialized.
MaxCols == 4
WeightRows(n) == [1..n -> Weights]
RowTransforms ==
    {[matrix |-> <<row>>, rows |-> 1, cols |-> Len(row), initialized |-> TRUE] :
        row \in UNION {WeightRows(n) : n \in 0..MaxCols}}
\* The rows below row 0 of a transform of MaxRows rows: all of one weight.
LowerRows(cols) ==
    {[i \in 1..(MaxRows - 1) |-> [j \in 1..cols |-> w]] : w \in {0, -3}}
MultiRowTransforms ==
    UNION {{[matrix |-> <<row>> \o lower, rows |-> MaxRows, cols |-> n,
             initialized |-> TRUE] :
                row \in WeightRows(n), lower \in LowerRows(n)} : n \in 1..MaxRows}
NoRowTransforms ==
    {[matrix |-> << >>, rows |-> 0, cols |-> c, initialized |-> TRUE] :
        c \in 0..MaxCols}
BSGSTransforms ==
    RowTransforms \cup MultiRowTransforms \cup NoRowTransforms
        \cup {OrionLinearTransform}

\* static_cast<size_t>(std::sqrt(cols)): the integer part of the root.
ISqrt(n) == CHOOSE r \in 0..n : r * r <= n /\ n < (r + 1) * (r + 1)

BabyStepSizeNoPlusOne(cols) == IF cols = 0 THEN 1 ELSE ISqrt(cols)

\* size_t baby_step_size = static_cast<size_t>(std::sqrt(cols)) + 1;
BabyStepSize(cols) == ISqrt(cols) + 1

\* size_t num_giant_steps = (cols + baby_step_size - 1) / baby_step_size;
NumGiantSteps(cols, baby_step_size) ==
    (cols + baby_step_size - 1) \div baby_step_size

GiantStepCoeffsNoStride(row, cols, giant_step, baby_step_size) ==
    [bs \in 1..baby_step_size |->
        LET matrix_col == giant_step + (bs - 1)
        IN IF matrix_col < cols /\ matrix_col < Len(row)
           THEN row[matrix_col + 1] ELSE 0]

\* giant_step_coeffs of one giant step: the weights of its columns read from
\* row, 0.0 beyond cols.
GiantStepCoeffs(row, cols, giant_step, baby_step_size) ==
    [bs \in 1..baby_step_size |->
        LET matrix_col == giant_step * baby_step_size + (bs - 1)
        IN IF matrix_col < cols /\ matrix_col < Len(row)
           THEN row[matrix_col + 1] ELSE 0]

HasNonzeroAlways(coeffs) == TRUE

\* has_nonzero: some coefficient of the giant step is above the tolerance.
HasNonzero(coeffs) == \E bs \in DOMAIN coeffs : Abs(coeffs[bs]) > Tolerance

\* The inner loop over the baby steps from index bs (0-based) on: acc is
\* giant_step_result, tr the calls issued.
RECURSIVE InnerSum(_, _, _, _, _)
InnerSum(bs, coeffs, baby_steps, acc, tr) ==
    IF ~(bs < Len(coeffs) /\ bs < Len(baby_steps))
    THEN [acc |-> acc, tr |-> tr]
    ELSE IF Abs(coeffs[bs + 1]) > Tolerance
    THEN LET weighted_baby == EvalMult(baby_steps[bs + 1], coeffs[bs + 1])
         IN InnerSum(bs + 1, coeffs, baby_steps, EvalAdd(acc, weighted_baby),
                     tr \o <<PrimCall("EvalMult", "baby_steps", bs, coeffs[bs + 1]),
                             PrimCall("EvalAdd", "giant_step_result", 0, 0)>>)
    ELSE InnerSum(bs + 1, coeffs, baby_steps, acc, tr)

\* catch (const std::exception& e) { throw std::runtime_error("BSGS Linear
\* transformation failed: ..."); }: the primitive called last threw.
Rethrow(fr, failed) ==
    [fr EXCEPT !.pc = "threw", !.error = "BSGS Linear transformation failed",
               !.missing = failed.by, !.trace = Append(fr.trace, failed)]

\* Variant: the giant step is added to result first and result is rotated.
GiantStepOnRotatesResult(fr, row, hasKey) ==
    LET b == fr.baby_step_size
        giant_rotation == fr.giant_step * b
        coeffs == GiantStepCoeffs(row, fr.t.cols, fr.giant_step, b)
        zero == EvalMult(InputCiphertext, 0)
        inner == InnerSum(0, coeffs, fr.baby_steps, zero,
                          <<PrimCall("EvalMult", "ciphertext", 0, 0)>>)
        rotation == PrimCall("EvalRotate", "result", 0, giant_rotation)
        added == EvalAdd(fr.result, inner.acc)
    IN IF ~HasNonzero(coeffs)
       THEN [fr EXCEPT !.giant_step = fr.giant_step + 1,
                       !.skipped = fr.skipped \cup {fr.giant_step}]
       ELSE IF giant_rotation > 0 /\ ~hasKey
       THEN Rethrow([fr EXCEPT !.trace = fr.trace \o inner.tr], rotation)
       ELSE [fr EXCEPT !.giant_step = fr.giant_step + 1,
                       !.result = IF giant_rotation > 0
                                  THEN EvalRotate(added, giant_rotation)
                                  ELSE added,
                       !.trace = fr.trace \o inner.tr
                                   \o <<PrimCall("EvalAdd", "result", 0, 0)>>
                                   \o IF giant_rotation > 0
                                      THEN <<rotation>> ELSE << >>]

\* One iteration of the giant-step loop on the frame fr, reading row as
\* matrix[0]; hasKey tells whether the context holds the key of this giant
\* step's rotation, without which EvalRotate throws.
GiantStepOn(fr, row, hasKey) ==
    LET b == fr.baby_step_size
        giant_rotation == fr.giant_step * b
        coeffs == GiantStepCoeffs(row, fr.t.cols, fr.giant_step, b)
        zero == EvalMult(InputCiphertext, 0)
        inner == InnerSum(0, coeffs, fr.baby_steps, zero,
                          <<PrimCall("EvalMult", "ciphertext", 0, 0)>>)
        rotation == PrimCall("EvalRotate", "giant_step_result", 0, giant_rotation)
        rotated == IF giant_rotation > 0
                   THEN [acc |-> EvalRotate(inner.acc, giant_rotation),
                         tr |-> Append(inner.tr, rotation)]
                   ELSE inner
    IN IF ~HasNonzero(coeffs)
       THEN [fr EXCEPT !.giant_step = fr.giant_step + 1,
                       !.skipped = fr.skipped \cup {fr.giant_step}]
       ELSE IF giant_rotation > 0 /\ ~hasKey
       THEN Rethrow([fr EXCEPT !.trace = fr.trace \o inner.tr], rotation)
       ELSE [fr EXCEPT !.giant_step = fr.giant_step + 1,
                       !.result = EvalAdd(fr.result, rotated.acc),
                       !.trace = fr.trace \o rotated.tr
                                   \o <<PrimCall("EvalAdd", "result", 0, 0)>>]

\* transform.Apply(context, ciphertext, rotationKeys) up to the first baby
\* step: the initialized test, the BSGS parameters, baby_steps[0].
ApplyBeginOn(t) ==
    IF ~t.initialized
    THEN [NoFrame EXCEPT !.pc = "threw", !.t = t,
                         !.error = "Transformation not initialized"]
    ELSE [NoFrame EXCEPT
            !.pc = "baby", !.t = t,
            !.baby_step_size = BabyStepSize(t.cols),
            !.num_giant_steps = NumGiantSteps(t.cols, BabyStepSize(t.cols)),
            !.k = 1,
            !.baby_steps = <<InputCiphertext>>]

\* for (size_t k = 1; k < baby_step_size && k < cols; k++)
BabyLoop(fr) == fr.k < fr.baby_step_size /\ fr.k < fr.t.cols

\* One turn of the baby-step loop: rotate the input by k, which throws when
\* the context has no key for k.
BabyStepOn(fr, hasKey) ==
    LET rotation == PrimCall("EvalRotate", "ciphertext", 0, fr.k)
    IN IF ~hasKey
       THEN Rethrow(fr, rotation)
       ELSE [fr EXCEPT
               !.baby_steps = Append(fr.baby_steps,
                                     EvalRotate(InputCiphertext, fr.k)),
               !.trace = Append(fr.trace, rotation),
               !.k = fr.k + 1]

\* auto result = context->EvalMult(ciphertext, 0.0);
InitAccumulatorOn(fr) ==
    [fr EXCEPT !.pc = "giant",
               !.result = EvalMult(InputCiphertext, 0),
               !.trace = Append(fr.trace, PrimCall("EvalMult", "ciphertext", 0, 0))]

\* for (size_t giant_step = 0; giant_step < num_giant_steps; giant_step++)
GiantLoop(fr) == fr.giant_step < fr.num_giant_steps

ApplyBeginKeepsK(t) ==
    /\ frame.pc \in {"idle", "returned", "threw"}
    /\ frame' = [ApplyBeginOn(t) EXCEPT !.k = IF frame.k > 1 THEN frame.k ELSE @]
    /\ UNCHANGED <<hvars, gvars, ltcall, ovars, avars>>

\* A call of Apply begins.  The frame of the call before it is gone: every
\* local of Apply is constructed anew.
ApplyBegin(t) ==
    /\ frame.pc \in {"idle", "returned", "threw"}
    /\ frame' = ApplyBeginOn(t)
    /\ UNCHANGED <<hvars, gvars, ltcall, ovars, avars>>

\* Which rotation keys the context holds is not read before EvalRotate asks
\* for one; an offset is asked for once in a call, so whether its key exists
\* is decided there.
BabyStep ==
    /\ frame.pc = "baby"
    /\ BabyLoop(frame)
    /\ \E hasKey \in BOOLEAN : frame' = BabyStepOn(frame, hasKey)
    /\ UNCHANGED <<hvars, gvars, ltcall, ovars, avars>>

\* The baby-step loop is over.
InitAccumulator ==
    /\ frame.pc = "baby"
    /\ ~BabyLoop(frame)
    /\ frame' = InitAccumulatorOn(frame)
    /\ UNCHANGED <<hvars, gvars, ltcall, ovars, avars>>

GiantStepLastRow ==
    /\ frame.pc = "giant"
    /\ GiantLoop(frame)
    /\ frame.t.rows >= 1
    /\ \E hasKey \in BOOLEAN :
          frame' = GiantStepOn(frame, frame.t.matrix[frame.t.rows], hasKey)
    /\ UNCHANGED <<hvars, gvars, ltcall, ovars, avars>>

\* One turn of the giant-step loop.  With no row in the matrix, matrix[0]
\* is undefined: the process ends, or the loop goes on with whatever it
\* reads as the row.
GiantStep ==
    /\ frame.pc = "giant"
    /\ GiantLoop(frame)
    /\ \E hasKey \in BOOLEAN :
          IF frame.t.rows = 0
          THEN \/ frame' = [frame EXCEPT !.pc = "crashed"]
               \/ \E row \in WeightRows(frame.t.cols) :
                     frame' = GiantStepOn(frame, row, hasKey)
          ELSE frame' = GiantStepOn(frame, frame.t.matrix[1], hasKey)
    /\ UNCHANGED <<hvars, gvars, ltcall, ovars, avars>>

\* return result;
ApplyReturn ==
    /\ frame.pc = "giant"
    /\ ~GiantLoop(frame)
    /\ frame' = [frame EXCEPT !.pc = "returned"]
    /\ UNCHANGED <<hvars, gvars, ltcall, ovars, avars>>

\* The whole call on a transform with a row 0, when missing is the one
\* offset the context has no key for (0: none is missing).
RECURSIVE RunFrom(_, _)
RunFrom(fr, missing) ==
    IF fr.pc = "baby"
    THEN IF BabyLoop(fr)
         THEN RunFrom(BabyStepOn(fr, fr.k # missing), missing)
         ELSE RunFrom(InitAccumulatorOn(fr), missing)
    ELSE IF fr.pc = "giant"
    THEN IF GiantLoop(fr)
         THEN RunFrom(GiantStepOn(fr, fr.t.matrix[1],
                                  fr.giant_step * fr.baby_step_size # missing),
                      missing)
         ELSE [fr EXCEPT !.pc = "returned"]
    ELSE fr

ApplyEncrypted(t, missing) == RunFrom(ApplyBeginOn(t), missing)

NextBSGS ==
    \/ \E t \in BSGSTransforms : ApplyBegin(t)
    \/ BabyStep
    \/ InitAccumulator
    \/ GiantStep
    \/ ApplyReturn

\* Encrypted Apply calls, one after the other, step by step.
SpecBSGS == Init /\ [][NextBSGS]_vars

\* ------------------------------------ functions on ciphertext handles
\* What none of these functions touches.
evars == <<hvars, ccall, ltcall, ovars, frame, conc>>
\* No call has ended the process.
HRunning == acall.outcome # "crashed"
\* The ids passed as transform ids.
LTIds == ErrorId..MaxTransforms

\* OrionLinearTransform* GetLinearTransform(transform_id): null exactly when
\* the id is not live.  g_ltHeap.Add(transform) is instantiated with T =
\* std::shared_ptr<OrionLinearTransform> and stores a shared_ptr to a copy of
\* that shared_ptr; GetSharedPtr<OrionLinearTransform> casts its address to
\* OrionLinearTransform*.  What a member function reads through the pointer
\* is therefore not the stored transform but whatever lies at that address.
GetLinearTransform(transform_id) == Exists(g_ltHeap, transform_id)
\* The type T of the Add calls on each heap: g_ptHeap.Add(plaintext) with a
\* const Plaintext&, g_ctHeap.Add(ciphertext) with a const
\* Ciphertext<DCRTPoly>&, g_ltHeap.Add(transform) with the result of
\* std::make_shared<OrionLinearTransform>(...).
AddedAs ==
    [g_ptHeap |-> "Plaintext", g_ctHeap |-> "Ciphertext<DCRTPoly>",
     g_ltHeap |-> "std::shared_ptr<OrionLinearTransform>"]
\* The type T of the Retrieve<T> and GetSharedPtr<T> calls on each heap.
ReadAs ==
    [g_ptHeap |-> "Plaintext", g_ctHeap |-> "Ciphertext<DCRTPoly>",
     g_ltHeap |-> "OrionLinearTransform"]
\* The cols of the transform stored under a live id.
StoredCols(transform_id) ==
    IF Exists(g_ltHeap, transform_id)
    THEN g_ltHeap.objectMap[transform_id].cols ELSE NoValue

\* int GetLinearTransformRotationKeys(transform_id, rotation_keys_out,
\* max_keys): cols is what GetCols() reads, cols - 1 is taken in size_t,
\* values is what the function writes to rotation_keys_out.
GetLinearTransformRotationKeys(transform_id, hasOut, max_keys, cols) ==
    LET cols_minus_1 == (cols - 1) % SizeModulus
        num_keys == IF cols_minus_1 <= max_keys THEN cols_minus_1 ELSE max_keys
        op == "GetLinearTransformRotationKeys"
        live == GetLinearTransform(transform_id)
    IN /\ HRunning
       /\ acall' = IF ~hasOut \/ max_keys = 0 \/ ~live
                   THEN ACall(op, live, StoredCols(transform_id), ErrorId, << >>,
                              0, "returned", "none")
                   ELSE ACall(op, TRUE, StoredCols(transform_id), num_keys,
                              [i \in 1..num_keys |-> i], 0, "returned", "none")
       /\ UNCHANGED <<evars, g_ptHeap, g_ctHeap, g_ltHeap, peaks, ctNetAdds, backend>>

\* ArrayResultInt* GetLinearTransformRotationKeysArray(transform_id): ret is
\* the length and values the data of the array returned, ret ErrorId a null
\* pointer.
GetLinearTransformRotationKeysArray(transform_id) ==
    LET num_keys == 1
        op == "GetLinearTransformRotationKeysArray"
    IN /\ HRunning
       /\ acall' = IF ~GetLinearTransform(transform_id)
                   THEN ACall(op, FALSE, NoValue, ErrorId, << >>, 0, "returned",
                              "nullptr")
                   ELSE ACall(op, TRUE, StoredCols(transform_id), num_keys,
                              [i \in 1..num_keys |-> i], 0, "returned", "none")
       /\ UNCHANGED <<evars, g_ptHeap, g_ctHeap, g_ltHeap, peaks, ctNetAdds, backend>>

\* int CreateLinearTransformC(matrix_data, num_rows, num_cols), called with
\* a buffer of num_rows * num_cols weights: matrix_vec gets as many of them
\* as the product is in size_t, and is passed to CreateLinearTransform.
CreateLinearTransformC(num_rows, num_cols) ==
    LET op == "CreateLinearTransformC"
        matrix_vec == FlatInput(SizeMul(num_rows, num_cols))
        transform == OrionLinearTransformFlat(matrix_vec, num_rows, num_cols)
    IN /\ HRunning
       /\ UNCHANGED <<evars, g_ptHeap, g_ctHeap, peaks, ctNetAdds, backend>>
       /\ IF num_rows = 0 \/ num_cols = 0
          THEN /\ acall' = ACall(op, TRUE, num_cols, ErrorId, << >>, 0, "returned",
                                 "none")
               /\ UNCHANGED g_ltHeap
          ELSE IF ReadsPastEnd(matrix_vec, num_rows, num_cols)
          THEN /\ \E o \in WrapOutcomes :
                    acall' = ACall(op, TRUE, num_cols,
                                   IF o = "threw" THEN ErrorId ELSE NoValue, << >>,
                                   0, IF o = "threw" THEN "returned" ELSE "crashed",
                                   "none")
               /\ UNCHANGED g_ltHeap
          ELSE /\ CanAddLT(g_ltHeap)
               /\ g_ltHeap' = Add(g_ltHeap, transform).heap
               /\ acall' = ACall(op, TRUE, num_cols, Add(g_ltHeap, transform).ret,
                                 << >>, 0, "returned", "none")

\* void DeleteLinearTransformC(transform_id): g_ltHeap.Delete(transform_id)
DeleteLinearTransformC(transform_id) ==
    /\ HRunning
    /\ g_ltHeap' = Delete(g_ltHeap, transform_id).heap
    /\ acall' = ACall("DeleteLinearTransformC", Exists(g_ltHeap, transform_id),
                      NoValue, NoValue, << >>, 0, "returned", "none")
    /\ UNCHANGED <<evars, g_ptHeap, g_ctHeap, peaks, ctNetAdds, backend>>

\* int GenerateLinearTransform(diag_idxs, diag_idxs_len, diag_data,
\* diag_data_len, level, bsgs_ratio, io_mode).  hasInputs: diag_idxs and
\* diag_data are not null and diag_idxs_len > 0.  matrix_data is diag_data
\* converted float to double, which keeps every value; size is the integer
\* part of sqrt(diag_data_len); unless size * size is diag_data_len, size is
\* 2 and matrix_data the 2x2 identity.  acall.values keeps diag_data.
GenerateLinearTransform(hasInputs, diag_data, diag_data_len) ==
    LET op == "GenerateLinearTransform"
        square == ISqrt(diag_data_len) * ISqrt(diag_data_len) = diag_data_len
        size == IF square THEN ISqrt(diag_data_len) ELSE 2
        matrix_data == IF square THEN diag_data ELSE <<1, 0, 0, 1>>
        transform == OrionLinearTransformFlat(matrix_data, size, size)
    IN /\ HRunning
       /\ UNCHANGED <<evars, g_ptHeap, g_ctHeap, peaks, ctNetAdds, backend>>
       /\ IF ~hasInputs \/ diag_data_len <= 0
          THEN /\ acall' = ACall(op, FALSE, diag_data_len, ErrorId, diag_data, 0,
                                 "returned", "none")
               /\ UNCHANGED g_ltHeap
          ELSE /\ CanAddLT(g_ltHeap)
               /\ g_ltHeap' = Add(g_ltHeap, transform).heap
               /\ acall' = ACall(op, TRUE, diag_data_len,
                                 Add(g_ltHeap, transform).ret, diag_data, 0,
                                 "returned", "none")

NextKeys ==
    \/ \E hasInputs \in BOOLEAN, diag_data_len \in 0..MaxObjLen :
          GenerateLinearTransform(hasInputs, FlatInput(diag_data_len),
                                  diag_data_len)
    \/ \E num_rows \in 0..MaxRows, num_cols \in Dims :
          CreateLinearTransformC(num_rows, num_cols)
    \/ CreateLinearTransformFlat(FlatInput(0), 0, 0)
    \/ \E id \in LTIds : DeleteLinearTransformC(id)
    \/ \E id \in LTIds, hasOut \in BOOLEAN, max_keys \in 0..MaxLen,
          cols \in 0..MaxLen :
             GetLinearTransformRotationKeys(id, hasOut, max_keys, cols)
    \/ \E id \in LTIds : GetLinearTransformRotationKeysArray(id)

\* Transforms are created and deleted and asked for their rotation keys.
SpecKeys == Init /\ [][NextKeys]_vars

\* The ciphertext a caller encrypts and the one a library call computes.
FreshCiphertext == CHOOSE x \in Objects : \A y \in Objects : x <= y
ComputedCiphertext == NumObjects

\* The handle-level functions are modelled while the ciphertext heap's
\* counter is below the cap.
MaxCiphertexts == 2
\* The ids passed as ciphertext ids.
CtIds == ErrorId..MaxCiphertexts
\* What the library does when it is reached: it throws or it returns.
LibraryStates == {"uninitialized", "throws", "ok"}

\* return PushCiphertext(result); at the end of a handler that called prims
\* primitives.
ReturnPushed(op, result, prims) ==
    /\ g_ctHeap.freedIntegers # << >> \/ g_ctHeap.nextInt < MaxCiphertexts
    /\ peaks' = UpdatePeaks(peaks)
    /\ g_ctHeap' = Add(g_ctHeap, result).heap
    /\ ctNetAdds' = ctNetAdds + 1
    /\ acall' = ACall(op, TRUE, NoValue, Add(g_ctHeap, result).ret, << >>, prims,
                      "returned", "none")

\* Variant: the error path stores a null ciphertext before it returns -1.
ReturnErrorStoresNull(op, allLive, prims, error) ==
    /\ acall' = ACall(op, allLive, NoValue, ErrorId, << >>, prims, "returned",
                      error)
    /\ g_ctHeap' = IF g_ctHeap.nextInt < MaxCiphertexts
                   THEN Add(g_ctHeap, NullObj).heap ELSE g_ctHeap
    /\ UNCHANGED <<peaks, ctNetAdds>>

\* return -1; with the ciphertext heap as it is.
ReturnError(op, allLive, prims, error) ==
    /\ acall' = ACall(op, allLive, NoValue, ErrorId, << >>, prims, "returned",
                      error)
    /\ UNCHANGED <<g_ctHeap, peaks, ctNetAdds>>

\* Variant: the result replaces the input ciphertext under its id.
ApplyLinearTransformInPlace(ciphertext_id, transform_id, seen, missing, result_ct) ==
    LET run == ApplyEncrypted(seen, missing)
        op == "ApplyLinearTransform"
    IN /\ HRunning
       /\ UNCHANGED <<evars, g_ptHeap, g_ltHeap, backend>>
       /\ IF ~GetLinearTransform(transform_id)
          THEN ReturnError(op, FALSE, 0, "Linear transformation not found")
          ELSE IF ~Exists(g_ctHeap, ciphertext_id)
          THEN ReturnError(op, FALSE, 0, "Ciphertext not found")
          ELSE IF run.pc = "returned"
          THEN /\ g_ctHeap' = [g_ctHeap EXCEPT !.objectMap[ciphertext_id] = result_ct]
               /\ acall' = ACall(op, TRUE, NoValue, ciphertext_id, << >>,
                                 Len(run.trace), "returned", "none")
               /\ UNCHANGED <<peaks, ctNetAdds>>
          ELSE ReturnError(op, TRUE, Len(run.trace), run.error)

\* Variant: what Apply throws is not caught.
ApplyLinearTransformNoCatch(ciphertext_id, transform_id, seen, missing, result_ct) ==
    LET run == ApplyEncrypted(seen, missing)
        op == "ApplyLinearTransform"
    IN /\ HRunning
       /\ UNCHANGED <<evars, g_ptHeap, g_ltHeap, backend>>
       /\ IF ~GetLinearTransform(transform_id)
          THEN ReturnError(op, FALSE, 0, "Linear transformation not found")
          ELSE IF ~Exists(g_ctHeap, ciphertext_id)
          THEN ReturnError(op, FALSE, 0, "Ciphertext not found")
          ELSE IF run.pc = "returned"
          THEN ReturnPushed(op, result_ct, Len(run.trace))
          ELSE /\ acall' = ACall(op, TRUE, NoValue, NoValue, << >>, Len(run.trace),
                                 "crashed", run.error)
               /\ UNCHANGED <<g_ctHeap, peaks, ctNetAdds>>

\* int ApplyLinearTransform(context, ciphertext_id, transform_id,
\* rotationKeys).  seen is what transform->Apply reads through the pointer,
\* missing the offset the context has no rotation key for, result_ct the
\* ciphertext Apply returns; the read through the pointer may also end the
\* process.
ApplyLinearTransform(ciphertext_id, transform_id, seen, missing, result_ct) ==
    LET run == ApplyEncrypted(seen, missing)
        op == "ApplyLinearTransform"
    IN /\ HRunning
       /\ UNCHANGED <<evars, g_ptHeap, g_ltHeap, backend>>
       /\ IF ~GetLinearTransform(transform_id)
          THEN ReturnError(op, FALSE, 0, "Linear transformation not found")
          ELSE IF ~Exists(g_ctHeap, ciphertext_id)
          THEN ReturnError(op, FALSE, 0, "Ciphertext not found")
          ELSE \/ /\ acall' = ACall(op, TRUE, NoValue, NoValue, << >>, 0,
                                    "crashed", "none")
                  /\ UNCHANGED <<g_ctHeap, peaks, ctNetAdds>>
               \/ IF run.pc = "returned"
                  THEN ReturnPushed(op, result_ct, Len(run.trace))
                  ELSE ReturnError(op, TRUE, Len(run.trace), run.error)

\* int OrionEvaluator::AddCiphertext(ct1ID, ct2ID): the initialized test,
\* the Exists tests, the library call, PushCiphertext; -1 from the catch
\* block when the library throws.  MulRelinCiphertext and Subtract have the
\* same body around another library call.
AddCiphertext(ct1ID, ct2ID, library) ==
    LET op == "AddCiphertext"
    IN /\ HRunning
       /\ UNCHANGED <<evars, g_ptHeap, g_ltHeap, backend>>
       /\ IF library = "uninitialized"
          THEN ReturnError(op, Exists(g_ctHeap, ct1ID) /\ Exists(g_ctHeap, ct2ID),
                           0, "Evaluator not initialized")
          ELSE IF ~Exists(g_ctHeap, ct1ID) \/ ~Exists(g_ctHeap, ct2ID)
          THEN ReturnError(op, FALSE, 0, "not found")
          ELSE IF library = "throws"
          THEN ReturnError(op, TRUE, 1, "failed")
          ELSE ReturnPushed(op, ComputedCiphertext, 1)

\* int OrionEvaluator::Rotate(ctID, steps), and with the same body around
\* another library call Negate, Rescale, MultiplyByScalar, AddScalar,
\* SubScalar.
Rotate(ctID, library) ==
    LET op == "Rotate"
    IN /\ HRunning
       /\ UNCHANGED <<evars, g_ptHeap, g_ltHeap, backend>>
       /\ IF library = "uninitialized"
          THEN ReturnError(op, Exists(g_ctHeap, ctID), 0,
                           "Evaluator not initialized")
          ELSE IF ~Exists(g_ctHeap, ctID)
          THEN ReturnError(op, FALSE, 0, "not found")
          ELSE IF library = "throws"
          THEN ReturnError(op, TRUE, 1, "failed")
          ELSE ReturnPushed(op, ComputedCiphertext, 1)

\* int OrionEncryptor::EncryptValues(values)
EncryptValues(library) ==
    LET op == "EncryptValues"
    IN /\ HRunning
       /\ UNCHANGED <<evars, g_ptHeap, g_ltHeap, backend>>
       /\ IF library = "uninitialized"
          THEN ReturnError(op, TRUE, 0, "Encryptor or scheme not initialized")
          ELSE IF library = "throws"
          THEN ReturnError(op, TRUE, 1, "failed")
          ELSE ReturnPushed(op, FreshCiphertext, 2)

\* bool DeleteCiphertext(ciphertextID): g_ctHeap.Delete(ciphertextID)
DeleteCiphertext(ciphertextID) ==
    /\ HRunning
    /\ g_ctHeap' = Delete(g_ctHeap, ciphertextID).heap
    /\ ctNetAdds' = IF Delete(g_ctHeap, ciphertextID).ret
                    THEN ctNetAdds - 1 ELSE ctNetAdds
    /\ acall' = ACall("DeleteCiphertext", Exists(g_ctHeap, ciphertextID), NoValue,
                      IF Delete(g_ctHeap, ciphertextID).ret THEN 1 ELSE 0, << >>,
                      0, "returned", "none")
    /\ UNCHANGED <<evars, g_ptHeap, g_ltHeap, peaks, backend>>

\* GetRealPackedValue() of the decryption of a stored ciphertext: a vector
\* that is not empty.
DecodedValues(obj) == <<obj>>

\* std::vector<double> OrionEncryptor::DecryptValues(ciphertextID)
DecryptValues(ciphertextID, library) ==
    LET op == "DecryptValues"
        live == Exists(g_ctHeap, ciphertextID)
    IN /\ HRunning
       /\ UNCHANGED <<evars, g_ptHeap, g_ctHeap, g_ltHeap, peaks, ctNetAdds, backend>>
       /\ acall' =
            IF library = "uninitialized"
            THEN ACall(op, live, NoValue, NoValue, << >>, 0, "returned",
                       "Encryptor or scheme not initialized")
            ELSE IF ~live
            THEN ACall(op, FALSE, NoValue, NoValue, << >>, 0, "returned",
                       "not found")
            ELSE IF library = "throws"
            THEN ACall(op, TRUE, NoValue, NoValue, << >>, 1, "returned", "failed")
            ELSE ACall(op, TRUE, NoValue, NoValue,
                       DecodedValues(Retrieve(g_ctHeap, ciphertextID).obj), 1,
                       "returned", "none")

\* What a call of ApplyLinearTransform finds: the object read through the
\* pointer and the offset whose key is missing.
ApplyReadings ==
    {[seen |-> OrionLinearTransform, missing |-> 0]} \cup
    {[seen |-> [matrix |-> <<[j \in 1..MaxCols |-> -3]>>, rows |-> 1,
                cols |-> MaxCols, initialized |-> TRUE],
      missing |-> m] : m \in 0..(MaxCols - 1)}

NextApply ==
    \/ \E library \in LibraryStates : EncryptValues(library)
    \/ \E id \in CtIds : DeleteCiphertext(id)
    \/ CreateLinearTransformC(1, MaxCols)
    \/ \E id \in LTIds : DeleteLinearTransformC(id)
    \/ \E ciphertext_id \in CtIds, transform_id \in LTIds, r \in ApplyReadings :
          ApplyLinearTransform(ciphertext_id, transform_id, r.seen, r.missing,
                               ComputedCiphertext)
    \/ \E ct1ID \in CtIds, ct2ID \in CtIds, library \in LibraryStates :
          AddCiphertext(ct1ID, ct2ID, library)
    \/ \E ctID \in CtIds, library \in LibraryStates : Rotate(ctID, library)
    \/ \E id \in CtIds, library \in LibraryStates : DecryptValues(id, library)

\* Ciphertexts and transforms are stored and deleted, and the functions
\* that take their handles are called in any order.
SpecApply == Init /\ [][NextApply]_vars

\* ------------------------------------------- OrionOpenFHEBackend
\* if (!initialized) return -1;
NotInitialized(op, allLive) ==
    /\ acall' = ACall(op, allLive, NoValue, ErrorId, << >>, 0, "returned",
                      "Backend not initialized")
    /\ UNCHANGED <<g_ctHeap, g_ltHeap, peaks, ctNetAdds, backend>>
    /\ UNCHANGED <<evars, g_ptHeap>>

\* bool OrionOpenFHEBackend::Initialize(...).  The way it ends: g_scheme's
\* Initialize returns false, GenerateKeys returns false with the scheme
\* initialized, everything succeeds, or an exception reaches the catch block
\* before the scheme is touched.
Initialize(how) ==
    /\ HRunning
    /\ backend' =
         IF how = "scheme_failed" THEN [backend EXCEPT !.g_scheme = FALSE]
         ELSE IF how = "keys_failed" THEN [backend EXCEPT !.g_scheme = TRUE]
         ELSE IF how = "ok"
         THEN [initialized |-> TRUE, g_scheme |-> TRUE, g_encryptor |-> TRUE,
               cleaned |-> FALSE]
         ELSE [backend EXCEPT !.initialized = FALSE, !.cleaned = FALSE]
    /\ acall' = ACall("Initialize", TRUE, NoValue, IF how = "ok" THEN 1 ELSE 0,
                      << >>, 0, "returned", "none")
    /\ UNCHANGED <<evars, g_ptHeap, g_ctHeap, g_ltHeap, peaks, ctNetAdds>>

\* void OrionOpenFHEBackend::CleanUp(): ResetLinearTransformHeap(), the
\* CleanUp of the encryptor, decryptor and encoder, g_scheme.CleanUp(),
\* which calls ResetTensorHeaps() when the scheme is initialized, and
\* initialized = false.  ResetLinearTransformHeap is declared in
\* linear_transform.hpp and defined nowhere in src/: it is taken to be
\* g_ltHeap.Reset().
CleanUp ==
    /\ HRunning
    /\ acall' = ACall("CleanUp", TRUE, NoValue, NoValue, << >>, 0, "returned",
                      "none")
    /\ IF backend.initialized
       THEN /\ g_ltHeap' = Reset(g_ltHeap)
            /\ backend' = [initialized |-> FALSE, g_scheme |-> FALSE,
                           g_encryptor |-> FALSE, cleaned |-> TRUE]
            /\ IF backend.g_scheme
               THEN /\ g_ptHeap' = Reset(g_ptHeap)
                    /\ g_ctHeap' = Reset(g_ctHeap)
                    /\ ctNetAdds' = 0
               ELSE UNCHANGED <<g_ptHeap, g_ctHeap, ctNetAdds>>
       ELSE UNCHANGED <<g_ptHeap, g_ctHeap, g_ltHeap, ctNetAdds, backend>>
    /\ UNCHANGED <<evars, peaks>>

\* void DeleteScheme(): g_scheme.CleanUp(), which clears the keys, calls
\* ResetTensorHeaps() and sets initialized = false when the scheme is
\* initialized, and does nothing otherwise.
DeleteScheme ==
    /\ HRunning
    /\ acall' = ACall("DeleteScheme", TRUE, NoValue, NoValue, << >>, 0,
                      "returned", "none")
    /\ IF backend.g_scheme
       THEN /\ g_ptHeap' = Reset(g_ptHeap)
            /\ g_ctHeap' = Reset(g_ctHeap)
            /\ ctNetAdds' = 0
            /\ backend' = [backend EXCEPT !.g_scheme = FALSE]
       ELSE UNCHANGED <<g_ptHeap, g_ctHeap, ctNetAdds, backend>>
    /\ UNCHANGED <<evars, g_ltHeap, peaks>>

\* int OrionOpenFHEBackend::EncodeAndEncrypt(values): g_encryptor's
\* EncryptValues behind the initialized test.
EncodeAndEncrypt(library) ==
    LET op == "EncodeAndEncrypt"
    IN /\ HRunning
       /\ IF ~backend.initialized
          THEN NotInitialized(op, TRUE)
          ELSE /\ UNCHANGED <<evars, g_ptHeap, g_ltHeap, backend>>
               /\ IF ~backend.g_encryptor \/ ~backend.g_scheme
                  THEN ReturnError(op, TRUE, 0, "Encryptor or scheme not initialized")
                  ELSE IF library = "throws"
                  THEN ReturnError(op, TRUE, 1, "failed")
                  ELSE ReturnPushed(op, FreshCiphertext, 2)

\* std::vector<double> OrionOpenFHEBackend::DecryptAndDecode(ciphertextID)
DecryptAndDecode(ciphertextID, library) ==
    LET op == "DecryptAndDecode"
        live == Exists(g_ctHeap, ciphertextID)
    IN /\ HRunning
       /\ UNCHANGED <<evars, g_ptHeap, g_ctHeap, g_ltHeap, peaks, ctNetAdds, backend>>
       /\ acall' =
            IF ~backend.initialized
            THEN ACall(op, live, NoValue, NoValue, << >>, 0, "returned",
                       "Backend not initialized")
            ELSE IF ~backend.g_encryptor \/ ~backend.g_scheme
            THEN ACall(op, live, NoValue, NoValue, << >>, 0, "returned",
                       "Encryptor or scheme not initialized")
            ELSE IF ~live
            THEN ACall(op, FALSE, NoValue, NoValue, << >>, 0, "returned",
                       "not found")
            ELSE IF library = "throws"
            THEN ACall(op, TRUE, NoValue, NoValue, << >>, 1, "returned", "failed")
            ELSE ACall(op, TRUE, NoValue, NoValue,
                       DecodedValues(Retrieve(g_ctHeap, ciphertextID).obj), 1,
                       "returned", "none")

\* int OrionOpenFHEBackend::CreateLinearTransform(matrix), matrix of size
\* elements: dim = sqrt(size) truncated, -1 unless dim * dim = size, else
\* ::CreateLinearTransform(matrix, dim, dim).
BackendCreateLinearTransform(size) ==
    LET op == "CreateLinearTransform"
        dim == ISqrt(size)
        transform == OrionLinearTransformFlat(FlatInput(size), dim, dim)
    IN /\ HRunning
       /\ IF ~backend.initialized
          THEN NotInitialized(op, TRUE)
          ELSE /\ UNCHANGED <<evars, g_ptHeap, g_ctHeap, peaks, ctNetAdds, backend>>
               /\ IF dim * dim # size
                  THEN /\ acall' = ACall(op, TRUE, dim, ErrorId, << >>, 0,
                                         "returned", "Invalid matrix size")
                       /\ UNCHANGED g_ltHeap
                  ELSE /\ CanAddLT(g_ltHeap)
                       /\ g_ltHeap' = Add(g_ltHeap, transform).heap
                       /\ acall' = ACall(op, TRUE, dim,
                                         Add(g_ltHeap, transform).ret, << >>, 0,
                                         "returned", "none")

\* int OrionOpenFHEBackend::ApplyLinearTransform(ciphertextID, transformID):
\* ::ApplyLinearTransform behind the initialized test.
BackendApplyLinearTransform(ciphertextID, transformID, seen, missing) ==
    LET op == "Backend::ApplyLinearTransform"
        run == ApplyEncrypted(seen, missing)
        live == GetLinearTransform(transformID) /\ Exists(g_ctHeap, ciphertextID)
    IN /\ HRunning
       /\ IF ~backend.initialized
          THEN NotInitialized(op, live)
          ELSE /\ UNCHANGED <<evars, g_ptHeap, g_ltHeap, backend>>
               /\ IF ~GetLinearTransform(transformID)
                  THEN ReturnError(op, FALSE, 0, "Linear transformation not found")
                  ELSE IF ~Exists(g_ctHeap, ciphertextID)
                  THEN ReturnError(op, FALSE, 0, "Ciphertext not found")
                  ELSE \/ /\ acall' = ACall(op, TRUE, NoValue, NoValue, << >>, 0,
                                            "crashed", "none")
                          /\ UNCHANGED <<g_ctHeap, peaks, ctNetAdds>>
                       \/ IF run.pc = "returned"
                          THEN ReturnPushed(op, ComputedCiphertext, Len(run.trace))
                          ELSE ReturnError(op, TRUE, Len(run.trace), run.error)

\* Variant: Add without the initialized test.
BackendAddNoTest(ct1ID, ct2ID, library) ==
    LET op == "Add"
    IN /\ HRunning
       /\ UNCHANGED <<evars, g_ptHeap, g_ltHeap, backend>>
       /\ IF ~Exists(g_ctHeap, ct1ID) \/ ~Exists(g_ctHeap, ct2ID)
          THEN ReturnError(op, FALSE, 0, "not found")
          ELSE IF library = "throws"
          THEN ReturnError(op, TRUE, 1, "failed")
          ELSE ReturnPushed(op, ComputedCiphertext, 1)

\* int OrionOpenFHEBackend::Add(ct1ID, ct2ID): EvalAdd
BackendAdd(ct1ID, ct2ID, library) ==
    LET op == "Add"
        live == Exists(g_ctHeap, ct1ID) /\ Exists(g_ctHeap, ct2ID)
    IN /\ HRunning
       /\ IF ~backend.initialized
          THEN NotInitialized(op, live)
          ELSE /\ UNCHANGED <<evars, g_ptHeap, g_ltHeap, backend>>
               /\ IF ~live
                  THEN ReturnError(op, FALSE, 0, "not found")
                  ELSE IF library = "throws"
                  THEN ReturnError(op, TRUE, 1, "failed")
                  ELSE ReturnPushed(op, ComputedCiphertext, 1)

\* int OrionOpenFHEBackend::Multiply(ct1ID, ct2ID): EvalMult, RescaleInPlace
BackendMultiply(ct1ID, ct2ID, library) ==
    LET op == "Multiply"
        live == Exists(g_ctHeap, ct1ID) /\ Exists(g_ctHeap, ct2ID)
    IN /\ HRunning
       /\ IF ~backend.initialized
          THEN NotInitialized(op, live)
          ELSE /\ UNCHANGED <<evars, g_ptHeap, g_ltHeap, backend>>
               /\ IF ~live
                  THEN ReturnError(op, FALSE, 0, "not found")
                  ELSE IF library = "throws"
                  THEN ReturnError(op, TRUE, 1, "failed")
                  ELSE ReturnPushed(op, ComputedCiphertext, 2)

\* int OrionOpenFHEBackend::Rotate(ctID, steps): GenerateRotationKey,
\* EvalRotate
BackendRotate(ctID, library) ==
    LET op == "Backend::Rotate"
        live == Exists(g_ctHeap, ctID)
    IN /\ HRunning
       /\ IF ~backend.initialized
          THEN NotInitialized(op, live)
          ELSE /\ UNCHANGED <<evars, g_ptHeap, g_ltHeap, backend>>
               /\ IF ~live
                  THEN ReturnError(op, FALSE, 0, "not found")
                  ELSE IF library = "throws"
                  THEN ReturnError(op, TRUE, 1, "failed")
                  ELSE ReturnPushed(op, ComputedCiphertext, 2)

\* int OrionOpenFHEBackend::Rescale(ctID): Rescale
BackendRescale(ctID, library) ==
    LET op == "Rescale"
        live == Exists(g_ctHeap, ctID)
    IN /\ HRunning
       /\ IF ~backend.initialized
          THEN NotInitialized(op, live)
          ELSE /\ UNCHANGED <<evars, g_ptHeap, g_ltHeap, backend>>
               /\ IF ~live
                  THEN ReturnError(op, FALSE, 0, "not found")
                  ELSE IF library = "throws"
                  THEN ReturnError(op, TRUE, 1, "failed")
                  ELSE ReturnPushed(op, ComputedCiphertext, 1)

NextBackend ==
    \/ \E how \in {"scheme_failed", "keys_failed", "ok", "threw"} : Initialize(how)
    \/ CleanUp
    \/ DeleteScheme
    \/ \E library \in {"throws", "ok"} : EncodeAndEncrypt(library)
    \/ \E id \in CtIds, library \in {"throws", "ok"} : DecryptAndDecode(id, library)
    \/ \E size \in 0..MaxDim : BackendCreateLinearTransform(size)
    \/ \E ciphertextID \in CtIds, transformID \in LTIds,
          r \in {x \in ApplyReadings : x.missing <= 1} :
          BackendApplyLinearTransform(ciphertextID, transformID, r.seen, r.missing)
    \/ \E ct1ID \in CtIds, ct2ID \in CtIds, library \in {"throws", "ok"} :
          BackendAdd(ct1ID, ct2ID, library)
    \/ \E ctID \in CtIds, library \in {"throws", "ok"} :
          BackendMultiply(ctID, ctID, library)
    \/ \E ctID \in CtIds, library \in {"throws", "ok"} : BackendRotate(ctID, library)
    \/ \E ctID \in CtIds, library \in {"throws", "ok"} : BackendRescale(ctID, library)
    \/ \E library \in {"throws", "ok"} :
          EncryptValues(IF backend.g_encryptor /\ backend.g_scheme
                        THEN library ELSE "uninitialized")
    \/ CreateLinearTransformC(1, 1)

\* A backend object is initialized, used and cleaned up in any order, next
\* to callers of the functions it wraps.
SpecBackend == Init /\ [][NextBackend]_vars

\* ------------------------------------ two threads on one HeapAllocator
\* Variant: a caller that takes the mutex does not wait for it.
AddTopNoWait(t, locked) ==
    /\ conc.outcome = "running"
    /\ conc.pc[t] = "idle" /\ conc.holds[t] = ErrorId
    /\ CanAdd(conc.arena)
    /\ conc' = [conc EXCEPT
                  !.pc[t] = "take",
                  !.locked[t] = locked,
                  !.allLocked = conc.allLocked /\ locked,
                  !.reuse[t] = conc.arena.freedIntegers # << >>,
                  !.allocated[t] = IF conc.arena.freedIntegers # << >>
                                   THEN Top(conc.arena.freedIntegers) ELSE ErrorId]
    /\ UNCHANGED <<hvars, gvars, ltcall, ovars, frame, backend, acall>>

\* Add, first step: if (!freedIntegers.empty()) allocated = freedIntegers.top().
\* A caller that uses the mutex enters when no other such caller is inside.
AddTop(t, locked) ==
    /\ conc.outcome = "running"
    /\ conc.pc[t] = "idle" /\ conc.holds[t] = ErrorId
    /\ CanAdd(conc.arena)
    /\ locked => \A u \in 1..2 : conc.pc[u] = "idle" \/ ~conc.locked[u]
    /\ conc' = [conc EXCEPT
                  !.pc[t] = "take",
                  !.locked[t] = locked,
                  !.allLocked = conc.allLocked /\ locked,
                  !.reuse[t] = conc.arena.freedIntegers # << >>,
                  !.allocated[t] = IF conc.arena.freedIntegers # << >>
                                   THEN Top(conc.arena.freedIntegers) ELSE ErrorId]
    /\ UNCHANGED <<hvars, gvars, ltcall, ovars, frame, backend, acall>>

\* Add, second step: freedIntegers.pop(), or allocated = nextInt++.  pop() on
\* a queue another thread has emptied is undefined: the process ends or the
\* queue stays empty.
AddTake(t) ==
    /\ conc.outcome = "running"
    /\ conc.pc[t] = "take"
    /\ IF ~conc.reuse[t]
       THEN conc' = [conc EXCEPT !.pc[t] = "store",
                                 !.allocated[t] = conc.arena.nextInt,
                                 !.arena.nextInt = conc.arena.nextInt + 1]
       ELSE IF conc.arena.freedIntegers # << >>
       THEN conc' = [conc EXCEPT !.pc[t] = "store",
                                 !.arena.freedIntegers = Pop(conc.arena.freedIntegers)]
       ELSE \/ conc' = [conc EXCEPT !.pc[t] = "store"]
            \/ conc' = [conc EXCEPT !.outcome = "crashed"]
    /\ UNCHANGED <<hvars, gvars, ltcall, ovars, frame, backend, acall>>

\* Add, last step: objectMap[allocated] = make_shared<T>(obj); return
\* allocated.  Thread t stores the object t.
AddStore(t) ==
    /\ conc.outcome = "running"
    /\ conc.pc[t] = "store"
    /\ conc' = [conc EXCEPT
                  !.pc[t] = "idle",
                  !.holds[t] = conc.allocated[t],
                  !.arena.objectMap = MapStore(conc.arena.objectMap,
                                               conc.allocated[t], t)]
    /\ UNCHANGED <<hvars, gvars, ltcall, ovars, frame, backend, acall>>

\* Delete(id) by a thread, of the id it holds, in one step.
ThreadDelete(t, locked) ==
    /\ conc.outcome = "running"
    /\ conc.pc[t] = "idle" /\ conc.holds[t] # ErrorId
    /\ locked => \A u \in 1..2 : conc.pc[u] = "idle" \/ ~conc.locked[u]
    /\ conc' = [conc EXCEPT
                  !.arena = Delete(conc.arena, conc.holds[t]).heap,
                  !.holds[t] = ErrorId,
                  !.locked[t] = locked,
                  !.allLocked = conc.allLocked /\ locked]
    /\ UNCHANGED <<hvars, gvars, ltcall, ovars, frame, backend, acall>>

NextConc ==
    \/ \E t \in 1..2, locked \in BOOLEAN : AddTop(t, locked)
    \/ \E t \in 1..2 : AddTake(t)
    \/ \E t \in 1..2 : AddStore(t)
    \/ \E t \in 1..2, locked \in BOOLEAN : ThreadDelete(t, locked)

\* Two threads add to and delete from one allocator, each call with or
\* without the callers' mutex.
SpecConc == Init /\ [][NextConc]_vars

\* ------------------------------------------------------------ claims
Live(H) == DOMAIN H.objectMap
Free(H) == Range(H.freedIntegers)
Count(s, x) == Cardinality({i \in DOMAIN s : s[i] = x})
Min(S) == CHOOSE x \in S : \A y \in S : x <= y
\* The n-th smallest element of S, n in 1..|S|.
Nth(S, n) == CHOOSE x \in S : Cardinality({y \in S : y < x}) = n - 1

\* C1: the handle an Add returns is a non-negative integer that was not live
\* when Add was called, so after the call it names exactly one more live
\* entry than before.
C1_AddReturnsUnusedHandle ==
    [][call'.op = "Add" =>
         /\ call'.ret \in Nat
         /\ call'.ret \notin Live(heap)
         /\ Live(heap') = Live(heap) \cup {call'.ret}
         /\ Cardinality(Live(heap')) = Cardinality(Live(heap)) + 1]_vars

\* An Add has reused a freed handle while other handles were live.
C1_Witness ==
    /\ call.op = "Add"
    /\ call.ret < heap.nextInt - 1
    /\ Cardinality(Live(heap)) >= 3

\* C2: Add returns the smallest id of the free pool and removes one copy of
\* it from the pool, leaving the counter alone; with an empty pool it returns
\* the counter and increments it by one.
C2_AddSmallestFreeElseFresh ==
    [][call'.op = "Add" =>
         IF heap.freedIntegers # << >>
         THEN /\ call'.ret = Min(Free(heap))
              /\ Len(heap'.freedIntegers) = Len(heap.freedIntegers) - 1
              /\ \A x \in Free(heap) :
                    Count(heap'.freedIntegers, x) =
                        Count(heap.freedIntegers, x) - (IF x = call'.ret THEN 1 ELSE 0)
              /\ heap'.nextInt = heap.nextInt
         ELSE /\ call'.ret = heap.nextInt
              /\ heap'.nextInt = heap.nextInt + 1
              /\ heap'.freedIntegers = << >>]_vars

\* An Add took the smallest of at least three freed ids.
C2_Witness ==
    /\ call.op = "Add"
    /\ Len(heap.freedIntegers) >= 2
    /\ \A x \in Free(heap) : call.ret < x

\* C3: a successful Delete(id) leaves id not live; while id is not live
\* Retrieve, GetSharedPtr and Exists on it fail; and an id that is not live
\* becomes live only by an Add that returns it.
C3_DeletedStaysNotFoundUntilReadded ==
    [][/\ (call'.op = "Delete" /\ call'.ok) => call'.id \notin Live(heap')
       /\ (call'.op \in {"Retrieve", "GetSharedPtr"} /\ call'.id \notin Live(heap))
             => (~call'.ok /\ call'.err = "not_found")
       /\ (call'.op = "Exists" /\ call'.id \notin Live(heap)) => ~call'.ok
       /\ \A id \in Live(heap') \ Live(heap) :
             call'.op = "Add" /\ call'.ret = id]_vars

\* A Retrieve of a deleted, not yet reused id has failed.
C3_Witness ==
    /\ call.op = "Retrieve"
    /\ call.id \in Free(heap)
    /\ ~call.ok

\* C4: Delete of an id that is not live returns false and changes nothing;
\* Delete of a live id returns true, removes the entry and adds exactly one
\* copy of id to the free pool.
C4_DeleteOnlyLive ==
    [][call'.op = "Delete" =>
         IF call'.id \in Live(heap)
         THEN /\ call'.ok
              /\ Live(heap') = Live(heap) \ {call'.id}
              /\ Len(heap'.freedIntegers) = Len(heap.freedIntegers) + 1
              /\ \A x \in Ids :
                    Count(heap'.freedIntegers, x) =
                        Count(heap.freedIntegers, x) + (IF x = call'.id THEN 1 ELSE 0)
              /\ Count(heap'.freedIntegers, call'.id) = 1
              /\ heap'.nextInt = heap.nextInt
         ELSE /\ ~call'.ok
              /\ heap' = heap]_vars

\* The same id was deleted twice in a row: the second Delete returned false.
C4_Witness ==
    /\ call.op = "Delete"
    /\ ~call.ok
    /\ call.id \in Free(heap)

\* C5: live ids and free ids are disjoint, no id is in the free pool twice,
\* and together they are exactly 0 .. nextInt-1.
C5_LiveFreePartition ==
    /\ Live(heap) \cap Free(heap) = {}
    /\ Cardinality(Free(heap)) = Len(heap.freedIntegers)
    /\ Live(heap) \cup Free(heap) = 0..(heap.nextInt - 1)

\* Some ids are live and some are free.
C5_Witness ==
    /\ heap.nextInt >= 3
    /\ Cardinality(Live(heap)) >= 1
    /\ Cardinality(Free(heap)) >= 2

\* C6: with F the free pool after the last Delete or Reset, the Adds made
\* since then returned the elements of F in increasing order and after them
\* the counter values in order, and the counter has moved only by the Adds
\* after F was used up.
C6_ReuseAscendingBeforeFresh ==
    LET F == runStart.free
        k == Cardinality(F)
        n == Len(runRets)
    IN /\ \A i \in 1..n :
             runRets[i] = IF i <= k THEN Nth(F, i) ELSE runStart.next + (i - k - 1)
       /\ \A i \in 1..(n - 1) : runRets[i] < runRets[i + 1]
       /\ heap.nextInt = runStart.next + (IF n > k THEN n - k ELSE 0)

\* Two freed ids were reused and then a fresh id was minted.
C6_Witness ==
    /\ Cardinality(runStart.free) >= 2
    /\ Len(runRets) = Cardinality(runStart.free) + 1

\* C7: an Add made right after a Reset returns handle 0.
C7_ResetThenAddReturnsZero ==
    (call.op = "Add" /\ call.afterReset) => call.ret = 0

\* An Add right after a Reset.
C7_Witness ==
    /\ call.op = "Add"
    /\ call.afterReset

\* C8: right after Reset the allocator is in the state of a newly constructed
\* one, and from then on every call returns on it what it returns on an
\* allocator constructed at the time of the Reset, and leaves the same state.
C8_ResetIsReconstruction ==
    /\ call.op = "Reset" => heap = HeapAllocator
    /\ freshMade => (heap = fresh /\ call = freshCall)

\* After a Reset the allocator was filled again and an id deleted.
C8_Witness ==
    /\ freshMade
    /\ call.op = "Delete"
    /\ call.ok
    /\ Cardinality(Live(heap)) >= 2

\* C9: a C-interface call that names a ciphertext id that is not live comes
\* back to its caller with a result (no exception leaves it) and leaves the
\* ciphertext heap and the peak counters as they were.
C9_UnknownIdIsRecoverable ==
    [][(/\ ccall'.op \in {"DeleteCiphertextC", "GetCiphertextLevel",
                          "EvaluatePolynomial"}
        /\ ccall'.id \notin Live(g_ctHeap))
          => (/\ ccall'.outcome = "returned"
              /\ g_ctHeap' = g_ctHeap
              /\ peaks' = peaks)]_vars

\* C10: Add stores its argument under the handle it returns; a live handle
\* stays live with the same object through every call that is neither Delete
\* of that handle nor Reset; Retrieve and GetSharedPtr of a live handle yield
\* the stored object.
C10_ObjectStableWhileLive ==
    [][/\ call'.op = "Add" => heap'.objectMap[call'.ret] = call'.obj
       /\ \A id \in Live(heap) :
             (call'.op # "Reset" /\ ~(call'.op = "Delete" /\ call'.id = id))
                => (id \in Live(heap') /\ heap'.objectMap[id] = heap.objectMap[id])
       /\ (call'.op \in {"Retrieve", "GetSharedPtr"} /\ call'.id \in Live(heap))
             => (call'.ok /\ call'.obj = heap.objectMap[call'.id])]_vars

\* A handle was retrieved after Adds and a Delete on other handles, and a
\* different object is stored under another live handle.
C10_Witness ==
    /\ call.op = "Retrieve"
    /\ call.ok
    /\ heap.freedIntegers # << >>
    /\ \E id \in Live(heap) : heap.objectMap[id] # call.obj

\* C11: the size reported for a heap is the number of its live entries and
\* equals the Adds minus the successful Deletes since its last Reset; the
\* live-keys vector holds every live id exactly once and nothing else; and
\* Exists(id) is true exactly for the ids of that vector.
C11_SizeKeysExistsAgree ==
    /\ Cardinality(Live(g_ctHeap)) = ctNetAdds
    /\ ccall.op = "GetMemoryUsage" =>
          /\ ccall.ret.ciphertextCount = ctNetAdds
          /\ ccall.ret.ciphertextCount = Cardinality(Live(g_ctHeap))
    /\ ccall.op = "GetAllCiphertextIDs" =>
          /\ Range(ccall.ret) = Live(g_ctHeap)
          /\ \A id \in Live(g_ctHeap) : Count(ccall.ret, id) = 1
          /\ Len(ccall.ret) = ctNetAdds
          /\ \A id \in Ids : Exists(g_ctHeap, id) <=> id \in Range(ccall.ret)
    /\ ccall.op = "CiphertextExists" =>
          \A keys \in GetLiveKeys(g_ctHeap) :
              ccall.ret <=> ccall.id \in Range(keys)

\* The live-keys vector of a heap with a freed id and two live ones, the
\* larger id first.
C11_Witness ==
    /\ ccall.op = "GetAllCiphertextIDs"
    /\ Len(ccall.ret) = 2
    /\ ccall.ret[1] > ccall.ret[2]
    /\ g_ctHeap.freedIntegers # << >>

\* C12: CreateLinearTransform on a flat buffer whose length differs from
\* rows*cols returns -1 and leaves the transform heap (live ids, free pool,
\* counter) as it was.
C12_FlatLengthMismatchRejected ==
    [][(ltcall'.op = "CreateLinearTransformFlat" /\ ltcall'.lengthDiffers) =>
         /\ ltcall'.outcome = "returned"
         /\ ltcall'.ret = ErrorId
         /\ g_ltHeap' = g_ltHeap]_vars

\* C13: CreateLinearTransform on a nested sequence with a row whose length
\* differs from the first row's returns -1 and leaves the transform heap as
\* it was.
C13_RaggedRowsRejected ==
    [][(ltcall'.op = "CreateLinearTransformNested" /\ ltcall'.ragged) =>
         /\ ltcall'.outcome = "returned"
         /\ ltcall'.ret = ErrorId
         /\ g_ltHeap' = g_ltHeap]_vars

\* A ragged input was rejected by a heap that holds a transform.
C13_Witness ==
    /\ ltcall.op = "CreateLinearTransformNested"
    /\ ltcall.ragged
    /\ ltcall.ret = ErrorId
    /\ Live(g_ltHeap) # {}

\* C14: CreateLinearTransform on an empty nested sequence returns a handle,
\* and the heap then holds under it an initialized transform with
\* rows = cols = 0.
C14_EmptyNestedIsZeroByZero ==
    [][(ltcall'.op = "CreateLinearTransformNested" /\ ltcall'.empty) =>
         /\ ltcall'.ret \in Nat
         /\ ltcall'.ret \notin Live(g_ltHeap)
         /\ ltcall'.ret \in Live(g_ltHeap')
         /\ g_ltHeap'.objectMap[ltcall'.ret].initialized
         /\ g_ltHeap'.objectMap[ltcall'.ret].rows = 0
         /\ g_ltHeap'.objectMap[ltcall'.ret].cols = 0]_vars

\* The sum of f[j] over the j in S.
RECURSIVE Sigma(_, _)
Sigma(f, S) ==
    IF S = {} THEN 0
    ELSE LET j == CHOOSE x \in S : TRUE IN f[j] + Sigma(f, S \ {j})

\* C15: an initialized transform has exactly rows rows of exactly cols
\* entries each; built from a flat buffer, its entry [i][j] is the buffer's
\* element i*cols+j; and Apply and ValidateDimensions leave rows, cols and
\* the entries as they were.
C15_TransformWellFormedAndImmutable ==
    [][/\ lt'.initialized =>
            /\ Len(lt'.matrix) = lt'.rows
            /\ \A i \in 1..lt'.rows : Len(lt'.matrix[i]) = lt'.cols
       /\ (ocall'.op = "ConstructFlat" /\ ocall'.outcome = "returned"
             /\ lt'.initialized) =>
            /\ lt'.rows = ocall'.num_rows
            /\ lt'.cols = ocall'.num_cols
            /\ \A i \in 0..lt'.rows - 1 : \A j \in 0..lt'.cols - 1 :
                  lt'.matrix[i + 1][j + 1] = ocall'.input[i * lt'.cols + j + 1]
       /\ ocall'.op \in {"Apply", "ValidateDimensions"} => lt' = lt]_vars

\* Apply was called on a 2x2 transform built from a buffer that is not
\* symmetric.
C15_Witness ==
    /\ ocall.op = "Apply"
    /\ lt.initialized
    /\ lt.rows = 2
    /\ lt.cols = 2
    /\ lt.matrix[1][2] # lt.matrix[2][1]

\* C16: for an initialized transform and an input of length cols, Apply
\* returns rows entries, the i-th being the sum over j of
\* matrix[i][j]*input[j]; the 2x2 identity maps [3,4] to [3,4].
C16_ApplyIsMatrixVectorProduct ==
    (ocall.op = "Apply" /\ lt.initialized /\ Len(ocall.input) = lt.cols) =>
        /\ Len(ocall.result) = lt.rows
        /\ \A i \in 1..lt.rows :
              ocall.result[i] =
                  Sigma([j \in 1..lt.cols |-> lt.matrix[i][j] * ocall.input[j]],
                        1..lt.cols)
        /\ (lt.matrix = <<<<1, 0>>, <<0, 1>>>> /\ ocall.input = <<3, 4>>) =>
              ocall.result = <<3, 4>>

\* The identity of size 2 was applied to [3,4].
C16_Witness ==
    /\ ocall.op = "Apply"
    /\ lt.initialized
    /\ lt.matrix = <<<<1, 0>>, <<0, 1>>>>
    /\ ocall.input = <<3, 4>>
    /\ ocall.result = <<3, 4>>

\* The initialized transforms a caller can build from the flat buffers.
ValidTransforms ==
    {OrionLinearTransformFlat(x[1], x[2], x[3]) : x \in
        {y \in FlatBuffers \X ObjDims \X ObjDims : Len(y[1]) = y[2] * y[3]}}

\* C17: what Apply returns for an input whose length differs from cols is
\* not a value that Apply returns for any initialized transform and any
\* input of that transform's cols.
C17_MismatchResultIsDistinct ==
    (ocall.op = "Apply" /\ lt.initialized /\ Len(ocall.input) # lt.cols) =>
        ~ \E t \in ValidTransforms, x \in InputVectors :
              /\ Len(x) = t.cols
              /\ Apply(t, x) = ocall.result

\* The least r with r*r >= n, and the least q with q*b >= a.
CeilSqrt(n) == CHOOSE r \in 0..n : r * r >= n /\ (r = 0 \/ (r - 1) * (r - 1) < n)
CeilDiv(a, b) == CHOOSE q \in 0..a : q * b >= a /\ (q = 0 \/ (q - 1) * b < a)

\* An encrypted Apply on a transform with columns has computed its parameters.
Applying == frame.pc \in {"baby", "giant", "returned", "crashed"} /\ frame.t.cols >= 1

\* C18: for cols >= 1 the encrypted Apply works with baby-step size
\* b = ceil(sqrt(cols)) and giant-step count g = ceil(cols/b).
C18_BabyStepSizeIsCeilSqrt ==
    Applying =>
        /\ frame.baby_step_size = CeilSqrt(frame.t.cols)
        /\ frame.num_giant_steps = CeilDiv(frame.t.cols, CeilSqrt(frame.t.cols))

\* The calls of tr that rotate the input ciphertext.
IsInputRotation(c) == c.f = "EvalRotate" /\ c.on = "ciphertext"
InputRotations(tr) == SelectSeq(tr, IsInputRotation)

\* C19: once the baby-step phase is over, the rotations issued on the input
\* are exactly b-1, with offsets 1, 2, ..., b-1 in that order, where
\* b = ceil(sqrt(cols)); they are the only calls of the phase, and no
\* rotation by 0 is ever issued.
C19_BabyStepsRotateInputOnce ==
    (Applying /\ frame.pc # "baby") =>
        LET b == CeilSqrt(frame.t.cols)
            rots == InputRotations(frame.trace)
        IN /\ Len(rots) = b - 1
           /\ \A k \in 1..Len(rots) : rots[k].by = k
           /\ \A k \in 1..Len(rots) : frame.trace[k] = rots[k]
           /\ \A i \in DOMAIN frame.trace :
                 frame.trace[i].f = "EvalRotate" => frame.trace[i].by # 0

\* The number of calls of primitive f in tr.
Calls(tr, f) == Cardinality({i \in DOMAIN tr : tr[i].f = f})
\* The weight of column col (0-based) of row 0, zero beyond cols.
WeightAt(t, col) == IF col < t.cols THEN t.matrix[1][col + 1] ELSE 0

\* C20: a giant step whose weights matrix[0][k*b .. k*b+b-1] (zero beyond
\* cols) are all below the tolerance issues no primitive call: the counts of
\* rotations, multiplications and additions and the accumulator are the same
\* after it as before.
C20_SkippedGiantStepIssuesNothing ==
    [][(/\ frame.pc = "giant"
        /\ frame'.pc = "giant"
        /\ frame'.giant_step = frame.giant_step + 1
        /\ frame.t.rows >= 1
        /\ \A bs \in 0..frame.baby_step_size - 1 :
              Abs(WeightAt(frame.t, frame.giant_step * frame.baby_step_size + bs))
                  < Tolerance) =>
         /\ \A f \in {"EvalRotate", "EvalMult", "EvalAdd"} :
               Calls(frame'.trace, f) = Calls(frame.trace, f)
         /\ frame'.trace = frame.trace
         /\ frame'.result = frame.result]_vars

\* An Apply has returned after skipping its first giant step, whose weights
\* were not all zero, and carrying out a later one.
C20_Witness ==
    /\ frame.pc = "returned"
    /\ frame.t.rows = 1
    /\ 0 \in frame.skipped
    /\ frame.t.matrix[1][1] # 0
    /\ \E i \in DOMAIN frame.trace :
          frame.trace[i].f = "EvalRotate" /\ frame.trace[i].on = "giant_step_result"

\* ---- C22
\* The sum over the columns c < t.cols whose weight is in W of
\* matrix[0][c] * Rotate(input, c), slot by slot.
RotationSum(t, W) ==
    [i \in 1..NumSlots |->
        Sigma([c \in 0..(t.cols - 1) |->
                  IF t.matrix[1][c + 1] \in W
                  THEN t.matrix[1][c + 1] * EvalRotate(InputCiphertext, c)[i]
                  ELSE 0],
              0..(t.cols - 1))]
\* The weights the tolerance test lets through.
AboveTolerance == {w \in Weights : Abs(w) > Tolerance}
\* An Apply on a transform with a row 0 and a column has returned.
Returned == frame.pc = "returned" /\ frame.t.rows >= 1 /\ frame.t.cols >= 1

SameRowZero(t) ==
    {u \in BSGSTransforms :
        u.rows >= 1 /\ u.cols = t.cols /\ u.matrix[1] = t.matrix[1]}
\* An Apply on a transform with a row 0 is over.
Finished == frame.pc \in {"returned", "threw"} /\ frame.t.rows >= 1

\* C23: the encrypted Apply reads only row 0: a call on any transform with
\* the same columns and the same row 0, whatever its other rows and its row
\* count, issues the same primitive calls with the same arguments and ends
\* with the same result.
C23_OnlyRowZeroIsRead ==
    Finished =>
        \A u \in SameRowZero(frame.t) :
            LET other == ApplyEncrypted(u, frame.missing)
            IN /\ other.trace = frame.trace
               /\ other.result = frame.result
               /\ other.pc = frame.pc

\* An Apply has returned a non-zero result on a transform of several rows
\* whose lower rows differ from row 0, and a one-row transform shares its row 0.
C23_Witness ==
    /\ Returned
    /\ frame.t.rows > 1
    /\ frame.t.matrix[frame.t.rows] # frame.t.matrix[1]
    /\ frame.t.matrix[1][1] \in AboveTolerance
    /\ \E u \in SameRowZero(frame.t) : u.rows = 1

\* ---- C27
\* C27: one encrypted Apply issues at most (b-1) + (g-1) Rotate calls, with
\* b = ceil(sqrt(cols)) and g = ceil(cols/b).
C27_RotationsWithinBound ==
    Applying =>
        Calls(frame.trace, "EvalRotate")
            <= (CeilSqrt(frame.t.cols) - 1)
               + (CeilDiv(frame.t.cols, CeilSqrt(frame.t.cols)) - 1)

\* ---- C29
\* C29: Apply keeps nothing between calls: whatever calls came before, a call
\* that is over has issued the primitive calls and produced the result that
\* the transform, the input and the context's keys determine, and no step of
\* it changes a heap, a transform object or the backend.
C29_ApplyIsStateless ==
    [][/\ (Finished' /\ frame' # frame) =>
            LET alone == ApplyEncrypted(frame'.t, frame'.missing)
            IN /\ alone.trace = frame'.trace
               /\ alone.result = frame'.result
               /\ alone.pc = frame'.pc
       /\ frame' # frame =>
            UNCHANGED <<g_ptHeap, g_ctHeap, g_ltHeap, lt, backend>>]_vars

\* An Apply on MaxCols columns has returned a non-zero result after rotating
\* the input more than once.
C29_Witness ==
    /\ Returned
    /\ frame.t.cols = MaxCols
    /\ frame.t.matrix[1][MaxCols] \in AboveTolerance
    /\ Len(InputRotations(frame.trace)) > 1

\* The offsets a baby-step giant-step pass over cols columns rotates by, with
\* b = ceil(sqrt(cols)) and g = ceil(cols / b).
RequiredOffsets(cols) ==
    LET b == CeilSqrt(cols)
        g == IF b = 0 THEN 0 ELSE CeilDiv(cols, b)
    IN (1..(b - 1)) \cup {k * b : k \in 1..(g - 1)}

\* C21: the rotation keys reported for a stored transform are exactly the
\* offsets {1..b-1} and {b, 2b, .., (g-1)b} of its cols columns, with
\* b = ceil(sqrt(cols)) and g = ceil(cols / b).
C21_ReportedKeysAreBSGSOffsets ==
    (/\ acall.op \in {"GetLinearTransformRotationKeys",
                      "GetLinearTransformRotationKeysArray"}
     /\ acall.allLive
     /\ acall.ret # ErrorId)
        => Range(acall.values) = RequiredOffsets(acall.cols)

\* C24: a successful ApplyLinearTransform(ciphertext_id, transform_id) stores
\* exactly one new object in the ciphertext heap and returns its id, which is
\* not ciphertext_id; the input ciphertext and the transform stay live and
\* unchanged, the live count of the ciphertext heap grows by one, and the
\* plaintext heap and the transform heap are unchanged.
C24_SuccessfulApplyStoresOneCiphertext ==
    [][\A ciphertext_id \in CtIds, transform_id \in LTIds :
          (/\ acall'.op = "ApplyLinearTransform"
           /\ acall'.outcome = "returned"
           /\ acall'.ret # ErrorId
           /\ \E r \in ApplyReadings :
                 ApplyLinearTransform(ciphertext_id, transform_id, r.seen,
                                      r.missing, ComputedCiphertext))
          => /\ ~Exists(g_ctHeap, acall'.ret)
             /\ acall'.ret # ciphertext_id
             /\ Live(g_ctHeap') = Live(g_ctHeap) \cup {acall'.ret}
             /\ Size(g_ctHeap') = Size(g_ctHeap) + 1
             /\ g_ctHeap'.objectMap[acall'.ret] = ComputedCiphertext
             /\ \A id \in Live(g_ctHeap) :
                   g_ctHeap'.objectMap[id] = g_ctHeap.objectMap[id]
             /\ Exists(g_ctHeap', ciphertext_id)
             /\ Exists(g_ltHeap', transform_id)
             /\ UNCHANGED <<g_ptHeap, g_ltHeap>>]_vars

\* An ApplyLinearTransform on a fresh ciphertext has returned the id of a
\* stored result, after rotations, next to its input.
C24_Witness ==
    /\ acall.op = "ApplyLinearTransform"
    /\ acall.outcome = "returned"
    /\ acall.ret # ErrorId
    /\ acall.prims > 1
    /\ Size(g_ctHeap) = 2
    /\ \E id \in Live(g_ctHeap) : g_ctHeap.objectMap[id] = FreshCiphertext
    /\ g_ctHeap.objectMap[acall.ret] = ComputedCiphertext
    /\ Size(g_ltHeap) = 1

\* C25: ApplyLinearTransform and the evaluator operations called with a
\* transform id or ciphertext id that is not live return -1, call no
\* homomorphic primitive and leave the three heaps unchanged; DecryptValues
\* of an id that is not live returns an empty vector.
C25_NonLiveIdFailsWithoutEffect ==
    [][(/\ acall'.op \in {"ApplyLinearTransform", "AddCiphertext", "Rotate",
                          "DecryptValues"}
        /\ ~acall'.allLive)
       => /\ acall'.outcome = "returned"
          /\ acall'.prims = 0
          /\ acall'.values = << >>
          /\ acall'.op # "DecryptValues" => acall'.ret = ErrorId
          /\ UNCHANGED <<g_ptHeap, g_ctHeap, g_ltHeap>>]_vars

\* Calls with an id that is not live have been made while the ciphertext
\* heap and the transform heap hold objects.
C25_Witness ==
    /\ acall.op \in {"ApplyLinearTransform", "AddCiphertext", "Rotate"}
    /\ ~acall.allLive
    /\ acall.ret = ErrorId
    /\ Size(g_ctHeap) > 0
    /\ Size(g_ltHeap) > 0

\* C26: when a rotation of the schedule fails for a missing key, in a baby
\* step or in a giant step, ApplyLinearTransform returns -1, the process
\* goes on, and no ciphertext is stored: the heaps are as before the call.
C26_MissingKeyIsReportedFailure ==
    [][(/\ acall'.op = "ApplyLinearTransform"
        /\ acall'.error = "BSGS Linear transformation failed")
       => /\ acall'.outcome = "returned"
          /\ acall'.ret = ErrorId
          /\ UNCHANGED <<g_ptHeap, g_ctHeap, g_ltHeap, peaks, ctNetAdds>>]_vars

\* An ApplyLinearTransform has failed in a giant step, after the baby steps,
\* and a later call has stored a ciphertext.
C26_Witness ==
    /\ acall.op = "ApplyLinearTransform"
    /\ acall.error = "BSGS Linear transformation failed"
    /\ acall.prims >= BabyStepSize(MaxCols)
    /\ Size(g_ctHeap) = 1

\* The member functions of the backend that return an id.
BackendOps ==
    {"EncodeAndEncrypt", "CreateLinearTransform", "Backend::ApplyLinearTransform",
     "Add", "Multiply", "Backend::Rotate", "Rescale"}

\* C28: every operation on a backend whose initialized flag is not set
\* (EncodeAndEncrypt, CreateLinearTransform, ApplyLinearTransform, Add,
\* Multiply, Rotate, Rescale) returns -1, DecryptAndDecode returns an empty
\* vector, and none of them changes a heap; CleanUp leaves the flag unset, so
\* the same holds after it.
C28_UninitializedBackendFails ==
    [][/\ (~backend.initialized /\ acall'.op \in BackendOps)
            => /\ acall'.outcome = "returned"
               /\ acall'.ret = ErrorId
               /\ acall'.prims = 0
               /\ UNCHANGED <<g_ptHeap, g_ctHeap, g_ltHeap>>
       /\ (~backend.initialized /\ acall'.op = "DecryptAndDecode")
            => /\ acall'.outcome = "returned"
               /\ acall'.values = << >>
               /\ acall'.prims = 0
               /\ UNCHANGED <<g_ptHeap, g_ctHeap, g_ltHeap>>
       /\ acall'.op = "CleanUp" => ~backend'.initialized]_vars

\* After a CleanUp of an initialized backend, with a transform stored since,
\* an operation on the backend has returned -1.
C28_Witness ==
    /\ ~backend.initialized
    /\ backend.cleaned
    /\ acall.op \in BackendOps
    /\ acall.ret = ErrorId
    /\ acall.error = "Backend not initialized"
    /\ Size(g_ltHeap) > 0

\* The ids the threads hold are different, and each is live with the object
\* its thread stored.
NoClash ==
    /\ conc.outcome = "running"
    /\ conc.holds[1] # ErrorId => conc.holds[1] # conc.holds[2]
    /\ \A t \in 1..2 :
          conc.holds[t] # ErrorId
             => /\ Exists(conc.arena, conc.holds[t])
                /\ conc.arena.objectMap[conc.holds[t]] = t

\* C30: when every call on the allocator ran under the mutex, no two Adds
\* have returned the same id and no stored object has been overwritten ...
C30_LockedAddsNeverClash == conc.allLocked => NoClash

\* ... and when the steps of two Adds interleave without it, both Adds
\* return the same id and one object overwrites the other.
C30_Witness ==
    /\ ~conc.allLocked
    /\ conc.outcome = "running"
    /\ conc.holds[1] # ErrorId
    /\ conc.holds[1] = conc.holds[2]
    /\ conc.pc[1] = "idle" /\ conc.pc[2] = "idle"
    /\ conc.arena.objectMap[conc.holds[1]] # 1

\* ---- C31
\* The weighted sum of the baby steps of giant step k of the frame fr: the
\* columns k*b .. k*b + b - 1 of row 0 whose weight is above the tolerance,
\* column k*b + j on the input rotated by j.
PartialSum(fr) ==
    LET b == fr.baby_step_size
        k == fr.giant_step
        js == {j \in 0..(b - 1) : k * b + j < fr.t.cols /\ j < Len(fr.baby_steps)
                                  /\ fr.t.matrix[1][k * b + j + 1] \in AboveTolerance}
    IN [i \in 1..NumSlots |->
          Sigma([j \in 0..(b - 1) |->
                    IF j \in js
                    THEN fr.t.matrix[1][k * b + j + 1]
                           * EvalRotate(InputCiphertext, j)[i]
                    ELSE 0], 0..(b - 1))]
\* The calls a step has appended to the trace.
Issued == SubSeq(frame'.trace, Len(frame.trace) + 1, Len(frame'.trace))

ApplyOffsets(cols) ==
    UNION {LET run == ApplyEncrypted([matrix |-> <<row>>, rows |-> 1,
                                      cols |-> cols, initialized |-> TRUE], 0)
           IN {run.trace[i].by : i \in {j \in DOMAIN run.trace :
                                           run.trace[j].f = "EvalRotate"}}
           : row \in WeightRows(cols)}

\* C32: every offset the encrypted Apply can rotate by on a stored transform
\* is in the list GetLinearTransformRotationKeysArray reports for it, and in
\* the list GetLinearTransformRotationKeys writes when the buffer has room
\* for cols - 1 entries.
C32_ReportedKeysCoverApplyOffsets ==
    [][/\ (/\ acall'.op = "GetLinearTransformRotationKeysArray"
           /\ acall'.allLive
           /\ acall'.ret # ErrorId)
          => ApplyOffsets(acall'.cols) \subseteq Range(acall'.values)
       /\ \A id \in LTIds, max_keys \in 0..MaxLen, cols \in 0..MaxLen :
             (/\ acall'.op = "GetLinearTransformRotationKeys"
              /\ acall'.ret # ErrorId
              /\ max_keys >= StoredCols(id) - 1
              /\ GetLinearTransformRotationKeys(id, TRUE, max_keys, cols))
             => ApplyOffsets(StoredCols(id)) \subseteq Range(acall'.values)]_vars

\* ---- C33
\* C33: every entry of the plaintext, the ciphertext and the transform heap
\* is read under the type it was added with; in particular a transform that
\* GetLinearTransform has read for one of the rotation-key functions.
C33_ReadUnderTheTypeAdded ==
    /\ Live(g_ptHeap) # {} => ReadAs.g_ptHeap = AddedAs.g_ptHeap
    /\ Live(g_ctHeap) # {} => ReadAs.g_ctHeap = AddedAs.g_ctHeap
    /\ (/\ acall.op \in {"GetLinearTransformRotationKeys",
                         "GetLinearTransformRotationKeysArray"}
        /\ acall.allLive
        /\ Live(g_ltHeap) # {})
          => ReadAs.g_ltHeap = AddedAs.g_ltHeap

\* ---- C34
\* C34: nextInt is the high-water mark of the number of live objects since
\* the last Reset.  The high-water mark m of Size is the quantity that starts
\* at 0, is 0 after Reset, and after every other call is the larger of m and
\* the new Size; nextInt obeys this recurrence.  Every live id, and every id
\* an Add returns, is below it.
C34_CounterIsHighWaterMark ==
    [][/\ heap'.nextInt = IF call'.op = "Reset" THEN 0
                          ELSE Max(heap.nextInt, Size(heap'))
       /\ \A id \in Live(heap') : id < heap'.nextInt
       /\ call'.op = "Add" => call'.ret < Max(heap.nextInt, Size(heap'))]_vars

\* An Add that reused a freed id while fewer objects are live than there
\* once were.
C34_Witness ==
    /\ call.op = "Add"
    /\ call.ret \in runStart.free
    /\ heap.nextInt >= 2
    /\ Size(heap) < heap.nextInt

\* ---- C35
\* C35: the three heaps are independent.  A call that changes one of them
\* leaves the other two as they were, except the calls that reset: DeleteScheme
\* leaves g_ptHeap and g_ctHeap empty, so that the next Add on each returns 0,
\* and leaves g_ltHeap as it was, and a DeleteScheme after a DeleteScheme
\* changes nothing.
C35_HeapsIndependentAndCleanUpEmptiesTensors ==
    [][/\ acall'.op \notin {"CleanUp", "DeleteScheme"} =>
            /\ g_ptHeap' # g_ptHeap => g_ctHeap' = g_ctHeap /\ g_ltHeap' = g_ltHeap
            /\ g_ctHeap' # g_ctHeap => g_ptHeap' = g_ptHeap /\ g_ltHeap' = g_ltHeap
            /\ g_ltHeap' # g_ltHeap => g_ptHeap' = g_ptHeap /\ g_ctHeap' = g_ctHeap
       /\ acall'.op = "DeleteScheme" =>
            /\ Live(g_ptHeap') = {} /\ Live(g_ctHeap') = {}
            /\ Add(g_ptHeap', FreshCiphertext).ret = 0
            /\ Add(g_ctHeap', FreshCiphertext).ret = 0
            /\ g_ltHeap' = g_ltHeap
            /\ acall.op = "DeleteScheme" =>
                 UNCHANGED <<g_ptHeap, g_ctHeap, g_ltHeap, backend>>]_vars

\* ---- C36
\* C36: GetLinearTransformRotationKeys on a live transform, with a buffer
\* and max_keys > 0, writes 1, ..., n and returns n, where n is the smaller
\* of max_keys and cols - 1, and 0 when cols <= 1; in every other case it
\* returns -1 and writes nothing.  Stated for the calls whose GetCols()
\* reads the cols the transform was stored with.
C36_KeysAreOneToMinColsMinusOne ==
    [][\A id \in LTIds, hasOut \in BOOLEAN, max_keys \in 0..MaxLen,
          cols \in 0..MaxLen :
          (/\ acall'.op = "GetLinearTransformRotationKeys"
           /\ Exists(g_ltHeap, id) => cols = StoredCols(id)
           /\ GetLinearTransformRotationKeys(id, hasOut, max_keys, cols))
            => IF Exists(g_ltHeap, id) /\ hasOut /\ max_keys > 0
               THEN LET n == IF StoredCols(id) <= 1 THEN 0
                             ELSE Min({StoredCols(id) - 1, max_keys})
                    IN /\ acall'.ret = n
                       /\ acall'.values = [i \in 1..n |-> i]
               ELSE acall'.ret = ErrorId /\ acall'.values = << >>]_vars

\* ---- C37
\* C37: when GenerateLinearTransform is given inputs that are not null and
\* of positive lengths, either it returns -1, or the transform stored under
\* the id it returns is the n x n matrix that holds diag_data row by row,
\* with n * n = diag_data_len.
C37_GeneratedTransformHoldsDiagData ==
    (/\ acall.op = "GenerateLinearTransform"
     /\ acall.allLive
     /\ acall.ret # ErrorId)
      => /\ Exists(g_ltHeap, acall.ret)
         /\ \E n \in 1..MaxObjLen :
               /\ n * n = Len(acall.values)
               /\ g_ltHeap.objectMap[acall.ret].rows = n
               /\ g_ltHeap.objectMap[acall.ret].cols = n
               /\ g_ltHeap.objectMap[acall.ret].matrix = Reshape(acall.values, n, n)

\* ---- C38
\* C38: each peak counter is the largest number of objects that were live
\* at once in its heap since the last ResetMemoryPeaks.  That maximum is the
\* quantity that after every call other than ResetMemoryPeaks is the larger
\* of its old value and the new number of live objects; the counters obey
\* this recurrence, and so never decrease.
C38_PeaksAreMaximumLive ==
    [][ccall'.op # "ResetMemoryPeaks" =>
          /\ peaks'.plaintexts = Max(peaks.plaintexts, Size(g_ptHeap'))
          /\ peaks'.ciphertexts = Max(peaks.ciphertexts, Size(g_ctHeap'))
          /\ peaks'.plaintexts >= peaks.plaintexts
          /\ peaks'.ciphertexts >= peaks.ciphertexts]_vars

====
